---- MODULE Spec2Model ----
(***************************************************************************)
(* A model of flow2api's token pool (src/src/services/token_manager.py)    *)
(* and of its generation handler (src/src/services/generation_handler.py). *)
(*                                                                         *)
(* Time is counted in whole hours.  The persistent store (core/database),  *)
(* the concurrency manager and the load balancer are not among the source  *)
(* files; the operators that stand for them follow the specification's     *)
(* description of them and say so where they are defined.                  *)
(***************************************************************************)
EXTENDS Integers, FiniteSets, Sequences, TLC

\* ------------------------------------------------------------- bounds
NumTokens == 2
MaxThreshold == 2
MaxErrors == 3
MaxTime == 18
TickHours == 6
NumRequests == 2
MaxLimit == 1
MaxImages == 1
MaxPollAttempts == 2
AtLifetime == 2

\* -------------------------------------------------- program constants
\* token_manager.py:461  time_since_ban.total_seconds() >= 12 * 3600
UnbanDelay == 12
\* token_manager.py:264  time_until_expiry.total_seconds() < 3600
RefreshMargin == 1
\* token_manager.py:59  image_concurrency: int = -1 (no limit)
Unlimited == -1

Tokens == 1..NumTokens
Requests == 1..NumRequests
\* Python's None for a token (select_token found none) or a lock holder.
NoToken == 0
NoRequest == 0
\* Python's None for a datetime column (at_expires, banned_at).
NoTime == -1
\* Python's None / empty string for the access credential.
NoAt == 0
BAN_429 == "429_rate_limit"
NoReason == "none"

VARIABLES
    db,       \* self.db: the token rows, their statistics, the admin config
    now,      \* datetime.now(timezone.utc), in hours
    lock,     \* TokenManager._lock: the request inside _refresh_at, if any
    gate,     \* the concurrency manager's in-flight counters, per class
    req,      \* each handle_generation call: its position and its locals
    lastOp    \* history: the pool operation that acted last, on whom, and
              \* the tokens whose row or statistics it changed

vars == <<db, now, lock, gate, req, lastOp>>

\* ------------------------------------------------ the persistent store
\* Database.update_token(token_id, **fields): sets the given columns of one
\* row.  The store is not among the source files; it is modelled as the
\* typed CRUD contract of the specification (section 6).
DbSetActive(d, t, v) == [d EXCEPT !.tokens[t].is_active = v]

DbSetBan(d, t, reason, at) ==
    [d EXCEPT !.tokens[t].ban_reason = reason, !.tokens[t].banned_at = at]

\* Database.increment_token_stats(token_id, "error"): the lifetime and the
\* consecutive error counters each go up by one (specification 4.1).
DbIncrementError(d, t) ==
    [d EXCEPT !.stats[t].error_count = @ + 1,
              !.stats[t].consecutive_error_count = @ + 1]

\* Database.reset_error_count(token_id): the consecutive counter goes to 0,
\* the lifetime counter stays (specification 4.1).
DbResetErrorCount(d, t) == [d EXCEPT !.stats[t].consecutive_error_count = 0]

\* ------------------------------------------------------ TokenManager
\* TokenManager.disable_token
disable_token(d, t) == DbSetActive(d, t, FALSE)

\* TokenManager.enable_token: activate, then reset the consecutive count.
enable_token(d, t) == DbResetErrorCount(DbSetActive(d, t, TRUE), t)

\* The test of record_error, mutated: strictly greater than the threshold.
ThresholdReached_Gt(d, t) ==
    d.stats[t].consecutive_error_count > d.error_ban_threshold

\* record_error's test: stats.consecutive_error_count >= error_ban_threshold
ThresholdReached(d, t) ==
    d.stats[t].consecutive_error_count >= d.error_ban_threshold

\* TokenManager.record_error: count the error, then disable at the threshold.
record_error(d, t) ==
    LET d1 == DbIncrementError(d, t)
    IN  IF ThresholdReached(d1, t) THEN disable_token(d1, t) ELSE d1

\* TokenManager.record_success, mutated: the success brings the account
\* back as enable_token does.
record_success_Enables(d, t) == enable_token(d, t)

\* TokenManager.record_success
record_success(d, t) == DbResetErrorCount(d, t)

\* TokenManager.ban_token_for_429
ban_token_for_429(d, t, clock) ==
    DbSetBan(DbSetActive(d, t, FALSE), t, BAN_429, clock)

\* The expiry test shared by update_token and auto_unban_429_tokens:
\* "if token.at_expires: ... at_expires_aware <= now".
IsExpired(row, clock) == row.at_expires # NoTime /\ row.at_expires <= clock

\* The sweep's test, mutated: the expiry of the credential is not looked at.
ShouldUnban_NoExpiry(row, clock) ==
    /\ row.ban_reason = BAN_429
    /\ ~row.is_active
    /\ row.banned_at # NoTime
    /\ clock - row.banned_at >= UnbanDelay

\* The chain of "continue" tests of auto_unban_429_tokens for one token.
ShouldUnban(row, clock) ==
    /\ row.ban_reason = BAN_429
    /\ ~row.is_active
    /\ row.banned_at # NoTime
    /\ ~IsExpired(row, clock)
    /\ clock - row.banned_at >= UnbanDelay

\* One unban: update_token(is_active=True, ban_reason=None, banned_at=None)
\* and reset_error_count.
UnbanOne(d, t) ==
    DbResetErrorCount(DbSetBan(DbSetActive(d, t, TRUE), t, NoReason, NoTime), t)

\* TokenManager.auto_unban_429_tokens: the loop over the tokens read at the
\* start of the sweep, folded over the token ids in order.
RECURSIVE SweepFrom(_, _, _, _)
SweepFrom(d, snapshot, clock, t) ==
    IF t > NumTokens THEN d
    ELSE SweepFrom(IF ShouldUnban(snapshot[t], clock) THEN UnbanOne(d, t) ELSE d,
                   snapshot, clock, t + 1)

auto_unban_429_tokens(d, clock) == SweepFrom(d, d.tokens, clock, 1)

\* TokenManager.update_token, for an edit that may set at_expires (NoTime:
\* the argument was not given).  A row banned for 429 whose credential has
\* not expired loses its ban reason and ban time; is_active is not touched.
update_token(d, t, newExpires, clock) ==
    LET row == d.tokens[t]
        d1 == IF newExpires # NoTime
              THEN [d EXCEPT !.tokens[t].at_expires = newExpires] ELSE d
    IN  IF row.ban_reason = BAN_429 /\ ~IsExpired(row, clock)
        THEN DbSetBan(d1, t, NoReason, NoTime)
        ELSE d1

\* ------------------------------------------- AT refresh (TokenManager)
\* is_at_valid's tests, the last one mutated: an hour or less left.
NeedsRefresh_Le(row, clock) ==
    \/ row.at = NoAt
    \/ row.at_expires = NoTime
    \/ row.at_expires - clock <= RefreshMargin

\* is_at_valid's three tests: no credential, no expiry, or less than an hour
\* left ("time_until_expiry.total_seconds() < 3600").
NeedsRefresh(row, clock) ==
    \/ row.at = NoAt
    \/ row.at_expires = NoTime
    \/ row.at_expires - clock < RefreshMargin

\* _refresh_at, the exchange has answered: db.update_token(at=, at_expires=).
\* The new credential differs from the stored one.
RefreshSucceeded(d, t, newExpires) ==
    [d EXCEPT !.tokens[t].at = @ + 1, !.tokens[t].at_expires = newExpires]

\* _refresh_at's handler, mutated: the failure is only counted as an error.
RefreshFailed_Counted(d, t) == record_error(d, t)

\* _refresh_at's "except Exception": disable_token(token_id).
RefreshFailed(d, t) == disable_token(d, t)

\* "async with self._lock", mutated: the region is entered without the lock.
LockFree_NoLock(l) == TRUE

\* "async with self._lock": the region is entered when nobody holds the lock.
LockFree(l) == l = NoRequest

\* The expiries an exchange may answer with: none that can be parsed, or
\* AtLifetime hours from now.
ExchangeExpiries(clock) == {NoTime, clock + AtLifetime}

\* ------------------------------------------------ ConcurrencyManager
\* The concurrency manager is not among the source files: these operators
\* follow specification 4.2 (tryAcquire and release on in-memory counters
\* keyed by account and class).
Classes == {"image", "video"}

\* inflight: the counters.  releases is history: how often release was
\* called for each account and class.
NoneInFlight ==
    [inflight |-> [c \in Classes |-> [t \in Tokens |-> 0]],
     releases |-> [c \in Classes |-> [t \in Tokens |-> 0]]]

Limit(d, t, class) ==
    IF class = "image" THEN d.tokens[t].image_concurrency
                       ELSE d.tokens[t].video_concurrency

\* tryAcquire's test: unlimited, or the count after the increment is within
\* the limit.
HasCapacity(d, g, t, class) ==
    \/ Limit(d, t, class) = Unlimited
    \/ g.inflight[class][t] + 1 <= Limit(d, t, class)

GateAcquire(g, t, class) == [g EXCEPT !.inflight[class][t] = @ + 1]

GateRelease(g, t, class) ==
    [g EXCEPT !.inflight[class][t] = IF @ > 0 THEN @ - 1 ELSE 0,
              !.releases[class][t] = @ + 1]

\* ----------------------------------------------------- LoadBalancer
\* The load balancer is not among the source files: select_token follows
\* specification 4.3.  It answers with any account that is active, has the
\* capability enabled and has spare capacity, or with none when there is no
\* such account.
Enabled(row, class) ==
    IF class = "image" THEN row.image_enabled ELSE row.video_enabled

Candidates(d, g, class) ==
    {t \in Tokens : /\ d.tokens[t].is_active
                    /\ Enabled(d.tokens[t], class)
                    /\ HasCapacity(d, g, t, class)}

select_token(d, g, class) ==
    IF Candidates(d, g, class) = {} THEN {NoToken} ELSE Candidates(d, g, class)

\* ------------------------------------------------ GenerationHandler
Kinds == {"image", "video"}

\* The failures of an upstream call, by the text of the exception that
\* _make_request raises ("Flow API request failed: " + str(e)): an HTTP 429
\* answer, another failure whose text has no "429" in it, and another
\* failure whose text happens to contain "429" (a timeout "after 30429
\* milliseconds", an identifier).
Errors == {"http429", "error", "error_text_429"}

\* Whether the failure is an HTTP 429 answer of the upstream.
Http429(e) == e = "http429"

\* handle_generation's test: "429" in str(e).
Is429(e) == e \in {"http429", "error_text_429"}

\* The class handle_generation asks the balancer for, mutated: the flags
\* of the two branches are swapped.
GenerationClass_Swapped(kind) == IF kind = "image" THEN "video" ELSE "image"

\* generation_type == "image" selects for_image_generation, else video.
GenerationClass(kind) == IF kind = "image" THEN "image" ELSE "video"

\* TokenManager.record_usage
record_usage(d, t, class) ==
    IF class = "video" THEN [d EXCEPT !.stats[t].video_count = @ + 1]
                       ELSE [d EXCEPT !.stats[t].image_count = @ + 1]

\* Steps 6 of handle_generation: record_usage, then record_success.
OnCompleted(d, t, class) == record_success(record_usage(d, t, class), t)

\* The "except Exception" of handle_generation: ban on 429, else count.
OnException(d, t, e, clock) ==
    IF Is429(e) THEN ban_token_for_429(d, t, clock) ELSE record_error(d, t)

\* A handle_generation call that has not started.  via, holds, acquired,
\* exchanges, saw429, polls and raised are history: how the call was made,
\* whether the slot is held, how often the gate granted this call a slot,
\* how many exchanges this call started, whether one of its upstream calls
\* answered 429, how many status queries its poll loop made, and the
\* exception that reached handle_generation's handler.
\* out is what the call has yielded, and what the route has sent after it,
\* in order; url is the address its final content embeds; cache, calls and
\* given are history: what the cache step did, the upstream calls the
\* request has made, and the number of images the caller passed.
IdleRequest ==
    [pc |-> "idle", kind |-> "image", prompt |-> "text", stream |-> TRUE,
     nimg |-> 0, token |-> NoToken,
     uploaded |-> 0, attempt |-> 0, outcome |-> "none", log |-> <<>>,
     via |-> "direct", holds |-> FALSE, acquired |-> 0, exchanges |-> 0,
     saw429 |-> FALSE, polls |-> 0, raised |-> "none",
     out |-> <<>>, url |-> "none", cache |-> "none", calls |-> {},
     given |-> 0, submission |-> "none", project |-> 0,
     created |-> FALSE, st |-> 0]

ClassOf(r) == GenerationClass(req[r].kind)

\* The "finally" of the two dispatch generators, mutated: the slot is not
\* released when an exception passes through.
ReleaseOnRaise_Leak(g, rq) == g

\* The "finally" of the two dispatch generators when an exception passes.
ReleaseOnRaise(g, rq) ==
    IF rq.holds THEN GateRelease(g, rq.token, GenerationClass(rq.kind)) ELSE g

\* The "finally" of the two dispatch generators on a return, mutated: the
\* slot is kept.
ReleaseOnReturn_Kept(g, rq) == g

\* The "finally" of the two dispatch generators on a return.
ReleaseOnReturn(g, rq) ==
    IF rq.holds THEN GateRelease(g, rq.token, GenerationClass(rq.kind)) ELSE g

\* What the rejected branch of the acquisition does to the gate, mutated:
\* the rejected request releases a slot.
RejectedAcquire_Release(g, rq) ==
    GateRelease(g, rq.token, GenerationClass(rq.kind))

\* "if not await acquire_...: yield error; return": before the try, so the
\* gate is left alone.
RejectedAcquire(g, rq) == g

\* Whether the dispatch goes on after the acquisition, mutated: the answer
\* of the gate is ignored.
SlotGranted_Ignored(d, g, rq) == TRUE

\* The answer of acquire_image / acquire_video for this request.
SlotGranted(d, g, rq) ==
    HasCapacity(d, g, rq.token, GenerationClass(rq.kind))

\* _create_stream_chunk without a finish reason, under "if stream:".
StreamChunk(rq) == IF rq.stream THEN <<"chunk">> ELSE <<>>

\* The result as it is yielded: _create_stream_chunk(..., finish_reason=
\* "stop") when streaming, else _create_completion_response.
ResultChunk(rq) == IF rq.stream THEN <<"final">> ELSE <<"completion">>

\* _create_error_response
ErrorEnvelope == <<"error">>

\* create_chat_completion's generate(), mutated: no sentinel is sent.
Sentinel_None(rq) == <<>>

\* create_chat_completion's generate(): once the generator of
\* handle_generation has ended, "data: [DONE]" is sent.
Sentinel(rq) ==
    IF rq.via = "route" /\ rq.stream THEN <<"[DONE]">> ELSE <<>>

\* The upstream calls, named by the position of the request while the call
\* is outstanding.
UpstreamCalls ==
    {"exchange", "create_project", "upload", "generate", "submit", "poll"}

\* Which submission call of _handle_video_generation takes uploads at all,
\* mutated: the uploaded frames are left out and the text call is made.
Submission_Text(rq) == "text"

\* The submission call of _handle_video_generation for the uploads made:
\* "if video_type == 'i2v' and start_media_id: if end_media_id:
\* generate_video_start_end else: generate_video_start_image", "elif
\* video_type == 'r2v' and reference_images:
\* generate_video_reference_images", "else: generate_video_text".  The
\* first upload of an i2v model is start_media_id, the second end_media_id.
Submission(rq) ==
    CASE rq.kind = "video_i2v" /\ rq.uploaded >= 2 -> "start_end"
      [] rq.kind = "video_i2v" /\ rq.uploaded = 1 -> "start_image"
      [] rq.kind = "video" /\ rq.uploaded >= 1 -> "reference_images"
      [] OTHER -> "text"

\* The request goes on to position p; when p is an upstream call, the call
\* is made, and of a submission it is kept which call it is.
Goto(rq, p) ==
    [rq EXCEPT !.pc = p,
               !.calls = IF p \in UpstreamCalls THEN @ \cup {p} ELSE @,
               !.submission = IF p = "submit" THEN Submission(rq) ELSE @]

\* _log_request's "try: ... add_request_log(log) except Exception": whether
\* the row is written.
LogWritten(d) == d.failing # "add_request_log"

\* _log_request: the row is written, or the failure is swallowed.
log_request(d, rq, status) ==
    IF LogWritten(d) THEN Append(rq.log, status) ELSE rq.log

\* Whether a failure of the insert leaves _log_request, mutated: it is not
\* caught.
LogRaises_Uncaught(d) == ~LogWritten(d)

\* Whether a failure of the insert leaves _log_request: "except Exception
\* as e: debug_logger.log_error(...)" keeps it in.
LogRaises(d) == FALSE

\* How a handle_generation call ends that would end with "outcome" and
\* whose last statement is _log_request.
AfterLog(d, outcome) == IF LogRaises(d) THEN "propagated" ELSE outcome

\* Whether the statistics write of record_usage, record_success or
\* record_error raises.
StatsFail(d) == d.failing = "increment_token_stats"

\* The end of handle_generation's try block for the request rq, which has
\* yielded "yielded" since the last step, with the store d: record_usage,
\* record_success and the log of status 200.  When record_usage raises, the
\* handler yields its failure chunk and calls record_error, which raises
\* too, out of handle_generation.
Completed(r, d, rq, outcome, yielded) ==
    IF StatsFail(d)
    THEN /\ db' = d
         /\ req' = [req EXCEPT ![r] =
                [rq EXCEPT !.pc = "done", !.outcome = "propagated",
                           !.holds = FALSE, !.raised = "store",
                           !.out = @ \o yielded \o StreamChunk(rq)]]
    ELSE /\ db' = OnCompleted(d, rq.token, GenerationClass(rq.kind))
         /\ req' = [req EXCEPT ![r] =
                [rq EXCEPT !.pc = "done", !.outcome = AfterLog(d, outcome),
                           !.holds = FALSE,
                           !.log = log_request(d, rq, 200),
                           !.out = @ \o yielded \o Sentinel(rq)]]

\* The dispatch generator of request rq (req[r] with the locals of this
\* step) ends without an exception, a result or an error envelope having
\* been yielded: its slot is released, and handle_generation goes on to
\* record the usage and the success and to log status 200.
Return(r, d, rq, outcome, yielded) ==
    /\ gate' = ReleaseOnReturn(gate, req[r])
    /\ Completed(r, d, rq, outcome, yielded)
    /\ UNCHANGED <<now, lock, lastOp>>


\* Whether the bookkeeping of handle_generation's handler raises: the
\* statistics write of record_error does; ban_token_for_429 writes the row.
BookkeepingFails(d, e) == StatsFail(d) /\ ~Is429(e)

\* An upstream call raises e: the slot, if held, is released on the way out,
\* and handle_generation yields its failure chunk, bans or counts, yields
\* the error envelope and logs status 500.  When the bookkeeping raises,
\* the exception leaves handle_generation after the failure chunk.
Raise(r, e) ==
    /\ gate' = ReleaseOnRaise(gate, req[r])
    /\ IF BookkeepingFails(db, e)
       THEN /\ db' = db
            /\ req' = [req EXCEPT ![r].pc = "done",
                                  ![r].outcome = "propagated",
                                  ![r].holds = FALSE,
                                  ![r].saw429 = @ \/ Http429(e),
                                  ![r].raised = e,
                                  ![r].out = @ \o StreamChunk(req[r])]
       ELSE /\ db' = OnException(db, req[r].token, e, now)
            /\ req' = [req EXCEPT ![r].pc = "done",
                                  ![r].outcome = AfterLog(db, "exception"),
                                  ![r].log = log_request(db, req[r], 500),
                                  ![r].holds = FALSE,
                                  ![r].saw429 = @ \/ Http429(e),
                                  ![r].raised = e,
                                  ![r].out = @ \o StreamChunk(req[r])
                                      \o ErrorEnvelope \o Sentinel(req[r])]
    /\ UNCHANGED <<now, lock, lastOp>>

\* The model ids a request may name: one image model and one video model
\* of MODEL_CONFIG, named by their generation type, and one id that is not
\* in MODEL_CONFIG.
ModelIds == Kinds \cup {"unknown"}

\* The prompts a request may carry: the empty one and any other.
Prompts == {"", "text"}

\* handle_generation's first test, mutated: every model id is accepted.
KnownModel_Any(m) == TRUE

\* The models of MODEL_CONFIG by their "type" and "video_type": "image" is
\* an image model, "video" a video model of type r2v, and the two others
\* video models of the types t2v and i2v.
VideoModels == {"video", "video_t2v", "video_i2v"}

Models == {"image"} \cup VideoModels

\* model_config.get("video_type")
video_type(m) ==
    CASE m = "video_t2v" -> "t2v"
      [] m = "video_i2v" -> "i2v"
      [] m = "video" -> "r2v"
      [] OTHER -> "none"

\* model_config.get("min_images", 0) and model_config.get("max_images", 0)
\* of the i2v models.
min_images == 1
max_images == 2

\* "model in MODEL_CONFIG"
KnownModel(m) == m \in Models

\* handle_generation's second test, mutated: every request is dispatched.
Streaming_Always(s) == TRUE

\* "if not stream: ... return" is passed by the streaming requests only.
Streaming(s) == s

\* create_chat_completion: "if not prompt: raise HTTPException(400)".
PromptGiven(p) == p # ""

\* What handle_generation does to the store when it was given no token,
\* mutated: the failure is counted against the first account.
OnNoToken_Counted(d) == record_error(d, 1)

\* "if not token: ... return" comes before the try: no bookkeeping.
OnNoToken(d) == d

\* The request as it is received, with the way it came in.
Received(r, how, m, p, n, s) ==
    [req[r] EXCEPT !.via = how, !.kind = m, !.prompt = p, !.nimg = n,
                   !.given = n, !.stream = s]

\* handle_generation, "if model not in MODEL_CONFIG": an error envelope,
\* and the call returns.
UnsupportedModel(r, how, m, p, n, s) ==
    /\ req[r].pc = "idle"
    /\ ~KnownModel(m)
    /\ req' = [req EXCEPT ![r] =
                  [Received(r, how, m, p, n, s) EXCEPT
                      !.pc = "done",
                      !.outcome = "unsupported_model",
                      !.out = ErrorEnvelope
                                 \o Sentinel(Received(r, how, m, p, n, s))]]
    /\ UNCHANGED <<db, now, lock, gate, lastOp>>

\* Whether load_balancer.select_token raises.
SelectFails(d) == d.failing = "select_token"

\* What a streaming handle_generation has yielded when select_token has
\* answered t: the start chunk, then the failure chunk and the error
\* envelope when there is no token, else the chunk that precedes the
\* credential check.
Started(rq, t) ==
    IF t = NoToken
    THEN StreamChunk(rq) \o StreamChunk(rq) \o ErrorEnvelope \o Sentinel(rq)
    ELSE StreamChunk(rq) \o StreamChunk(rq)

\* handle_generation, "if not stream": check_token_availability asks the
\* balancer for a token of the model's class, and the call returns with a
\* message that says whether there was one.  When select_token raises, the
\* exception leaves handle_generation.
AvailabilityCheck(r, how, m, p, n, s) ==
    /\ req[r].pc = "idle"
    /\ KnownModel(m) /\ ~Streaming(s)
    /\ IF SelectFails(db)
       THEN req' = [req EXCEPT ![r] = [Received(r, how, m, p, n, s) EXCEPT
                                         !.pc = "done",
                                         !.outcome = "propagated",
                                         !.raised = "store"]]
       ELSE \E t \in select_token(db, gate, GenerationClass(m)) :
               req' = [req EXCEPT ![r] = [Received(r, how, m, p, n, s) EXCEPT
                                            !.pc = "done",
                                            !.outcome = IF t = NoToken
                                                        THEN "unavailable"
                                                        ELSE "available",
                                            !.out = <<"completion">>]]
    /\ UNCHANGED <<db, now, lock, gate, lastOp>>

\* handle_generation of a streaming request, up to the selection of a
\* token: with none, an error envelope that names the generation type.
\* select_token is called outside the try block: when it raises, the
\* exception leaves handle_generation after the start chunk.
StartGeneration(r, how, m, p, n, s) ==
    /\ req[r].pc = "idle"
    /\ KnownModel(m) /\ Streaming(s)
    /\ IF SelectFails(db)
       THEN /\ req' = [req EXCEPT ![r] =
                   [Received(r, how, m, p, n, s) EXCEPT
                       !.pc = "done", !.outcome = "propagated",
                       !.raised = "store",
                       !.out = StreamChunk(Received(r, how, m, p, n, s))]]
            /\ db' = db
       ELSE \E t \in select_token(db, gate, GenerationClass(m)) :
               /\ req' = [req EXCEPT ![r] =
                      [Received(r, how, m, p, n, s) EXCEPT
                          !.token = t,
                          !.pc = IF t = NoToken THEN "done" ELSE "is_at_valid",
                          !.outcome = IF t = NoToken THEN "no_token"
                                                     ELSE "none",
                          !.out = Started(Received(r, how, m, p, n, s), t)]]
               /\ db' = IF t = NoToken THEN OnNoToken(db) ELSE db
    /\ UNCHANGED <<now, lock, gate, lastOp>>

\* A streaming handle_generation call for a model of kind k, with a prompt
\* and n images.
Begin(r, k, n) == StartGeneration(r, "direct", k, "text", n, TRUE)

\* create_chat_completion with an empty prompt: HTTP 400, and
\* handle_generation is not called.
RouteRejectsPrompt(r, m, n, s) ==
    /\ req[r].pc = "idle"
    /\ req' = [req EXCEPT ![r] = [Received(r, "route", m, "", n, s) EXCEPT
                                     !.pc = "done", !.outcome = "http400"]]
    /\ UNCHANGED <<db, now, lock, gate, lastOp>>

\* handle_generation with any model id, prompt, images and stream flag.
handle_generation(r, how, m, p, n, s) ==
    \/ UnsupportedModel(r, how, m, p, n, s)
    \/ AvailabilityCheck(r, how, m, p, n, s)
    \/ StartGeneration(r, how, m, p, n, s)

\* create_chat_completion: the prompt is tested, then handle_generation is
\* called with what the request carries.
create_chat_completion(r, m, p, n, s) ==
    \/ ~PromptGiven(p) /\ p = "" /\ RouteRejectsPrompt(r, m, n, s)
    \/ PromptGiven(p) /\ handle_generation(r, "route", m, p, n, s)

\* is_at_valid: the credential is fresh and the call returns True, or it
\* goes on to _refresh_at.
IsAtValid(r) ==
    /\ req[r].pc = "is_at_valid"
    /\ req' = [req EXCEPT ![r].pc =
                  IF NeedsRefresh(db.tokens[req[r].token], now)
                  THEN "refresh_wait" ELSE "project"]
    /\ UNCHANGED <<db, now, lock, gate, lastOp>>

\* _refresh_at: the lock is taken and the exchange call st_to_at is made.
RefreshEnter(r) ==
    /\ req[r].pc = "refresh_wait"
    /\ LockFree(lock)
    /\ lock' = r
    /\ req' = [req EXCEPT ![r] = [Goto(req[r], "exchange") EXCEPT
                                     !.exchanges = @ + 1]]
    /\ UNCHANGED <<db, now, gate, lastOp>>

\* The exchange answers: the credential is stored, the lock released, and
\* handle_generation goes on.
ExchangeOk(r, newExpires) ==
    /\ req[r].pc = "exchange"
    /\ db' = RefreshSucceeded(db, req[r].token, newExpires)
    /\ lock' = NoRequest
    /\ req' = [req EXCEPT ![r].pc = "project"]
    /\ UNCHANGED <<now, gate, lastOp>>

\* handle_generation's reading of is_at_valid's answer, mutated: the
\* request goes on whatever the answer.
Proceeds_Always(valid) == TRUE

\* "if not await self.token_manager.is_at_valid(token.id): ... return"
Proceeds(valid) == valid

\* The exchange raises e: _refresh_at disables the token and returns False;
\* handle_generation yields its failure chunk and an error envelope and
\* returns.
ExchangeFail(r, e) ==
    /\ req[r].pc = "exchange"
    /\ db' = RefreshFailed(db, req[r].token)
    /\ lock' = NoRequest
    /\ req' = [req EXCEPT ![r] =
                  IF Proceeds(FALSE)
                  THEN [req[r] EXCEPT !.pc = "project",
                                      !.saw429 = @ \/ Http429(e)]
                  ELSE [req[r] EXCEPT !.pc = "done",
                                      !.outcome = "at_invalid",
                                      !.saw429 = @ \/ Http429(e),
                                      !.out = @ \o StreamChunk(req[r])
                                                \o ErrorEnvelope
                                                \o Sentinel(req[r])]]
    /\ UNCHANGED <<now, gate, lastOp>>

\* ensure_project_exists reads the row: the bound project is returned, or
\* a create_project call is made ("if token.current_project_id: return
\* token.current_project_id").  project is what the call returns.
EnsureProject(r) ==
    /\ req[r].pc = "project"
    /\ req' = [req EXCEPT ![r] =
                  IF db.tokens[req[r].token].current_project_id # 0
                  THEN [Goto(req[r], "acquire") EXCEPT !.project =
                           db.tokens[req[r].token].current_project_id]
                  ELSE Goto(req[r], "create_project")]
    /\ UNCHANGED <<db, now, lock, gate, lastOp>>

\* create_project answers with a new project (1 + r stands for its uuid):
\* it is bound to the account and returned.  created is history: the call
\* has made a remote project.
CreateProjectOk(r) ==
    /\ req[r].pc = "create_project"
    /\ db' = [db EXCEPT !.tokens[req[r].token].current_project_id = 1 + r]
    /\ req' = [req EXCEPT ![r].pc = "acquire", ![r].project = 1 + r,
                          ![r].created = TRUE]
    /\ UNCHANGED <<now, lock, gate, lastOp>>

\* create_project raises e: ensure_project_exists raises a ValueError that
\* carries e's text.
CreateProjectFail(r, e) ==
    /\ req[r].pc = "create_project"
    /\ Raise(r, e)

\* The first call after the acquisition: the uploads, if there are images,
\* then generate_image or the video submission.
AfterUploads(rq) == IF rq.kind = "image" THEN "generate" ELSE "submit"

\* _handle_video_generation's test for an i2v model:
\* "image_count < min_images or image_count > max_images".
OutOfRange(rq) ==
    /\ video_type(rq.kind) = "i2v"
    /\ (rq.nimg < min_images \/ rq.nimg > max_images)

\* The images the dispatch works with, mutated: a t2v model keeps them.
Images_Kept(rq) == rq.nimg

\* The images the dispatch works with: a t2v model drops them ("images =
\* None; image_count = 0").
Images(rq) == IF video_type(rq.kind) = "t2v" THEN 0 ELSE rq.nimg

\* The warning chunk of a t2v model that was given images.
Ignored(rq) ==
    IF video_type(rq.kind) = "t2v" /\ rq.nimg > 0 THEN StreamChunk(rq)
    ELSE <<>>

\* The dispatch generator from the grant of its slot to its first upstream
\* call, or to the yield of the range error of an i2v model: the chunk that
\* names the range, the chunk that announces the uploads, or the chunk that
\* announces the generation or the submission.
Dispatched(rq) ==
    IF OutOfRange(rq)
    THEN [rq EXCEPT !.pc = "range_error", !.out = @ \o StreamChunk(rq)]
    ELSE [Goto(rq, IF Images(rq) > 0 THEN "upload" ELSE AfterUploads(rq))
             EXCEPT !.nimg = Images(rq),
                    !.out = @ \o Ignored(rq) \o StreamChunk(rq)]

\* acquire_image / acquire_video at the head of the dispatch generators.
Acquire(r) ==
    /\ req[r].pc = "acquire"
    /\ IF SlotGranted(db, gate, req[r])
       THEN /\ gate' = GateAcquire(gate, req[r].token, ClassOf(r))
            /\ req' = [req EXCEPT ![r] =
                          Dispatched([req[r] EXCEPT !.holds = TRUE,
                                                    !.acquired = @ + 1])]
            /\ UNCHANGED <<db, now, lock, lastOp>>
       ELSE /\ gate' = RejectedAcquire(gate, req[r])
            /\ Completed(r, db, req[r], "slot_rejected", ErrorEnvelope)
            /\ UNCHANGED <<now, lock, lastOp>>

\* _handle_video_generation, an i2v model with too few or too many images:
\* the error envelope is yielded and the generator returns through its
\* "finally".
RangeError(r) ==
    /\ req[r].pc = "range_error"
    /\ Return(r, db, req[r], "image_range", ErrorEnvelope)

\* upload_image answers.  The image generator reports each upload; after
\* the last one comes the chunk that announces the generation or the
\* submission.
UploadOk(r) ==
    /\ req[r].pc = "upload"
    /\ LET last == req[r].uploaded + 1 = req[r].nimg
           said == (IF req[r].kind = "image" THEN StreamChunk(req[r])
                                             ELSE <<>>)
                   \o (IF last THEN StreamChunk(req[r]) ELSE <<>>)
       IN  req' = [req EXCEPT ![r] =
                      [Goto([req[r] EXCEPT !.uploaded = @ + 1],
                            IF last THEN AfterUploads(req[r]) ELSE "upload")
                          EXCEPT !.out = @ \o said]]
    /\ UNCHANGED <<db, now, lock, gate, lastOp>>

UploadFail(r, e) == req[r].pc = "upload" /\ Raise(r, e)

\* What file_cache.download_and_cache may do under "if config.cache_enabled":
\* store the file, or raise; with the cache switched off it is not called.
CacheOutcomes(d) ==
    IF d.cache_enabled THEN {"cached", "failed"} ELSE {"disabled"}

\* local_url after the cache step, mutated: a failed download leaves no
\* address.
LocalUrl_Lost(c) == IF c = "cached" THEN "cached" ELSE "none"

\* local_url after the cache step: the address of the cached file, or the
\* remote address when the download raised or the cache is switched off.
LocalUrl(c) == IF c = "cached" THEN "cached" ELSE "remote"

\* The chunks of the cache step: "Caching ..." and then "cached
\* successfully" or "Cache failed", or the one chunk "Cache disabled".
CacheChunks(rq, c) ==
    IF c = "disabled" THEN StreamChunk(rq)
    ELSE StreamChunk(rq) \o StreamChunk(rq)

\* The end of a generation whose artifact is at hand, the store being d
\* and "before" having been yielded in this step: the cache step with the
\* outcome c, then the result that embeds local_url.
Deliver(r, d, c, before) ==
    Return(r, d, [req[r] EXCEPT !.url = LocalUrl(c), !.cache = c],
           "artifact",
           before \o CacheChunks(req[r], c) \o ResultChunk(req[r]))

\* generate_image answers with a media list, with an empty one, or raises.
GenerateOk(r) ==
    /\ req[r].pc = "generate"
    /\ \E c \in CacheOutcomes(db) : Deliver(r, db, c, <<>>)

GenerateEmpty(r) ==
    /\ req[r].pc = "generate"
    /\ Return(r, db, req[r], "empty_result", ErrorEnvelope)

GenerateFail(r, e) == req[r].pc = "generate" /\ Raise(r, e)

\* Database.create_task and Database.update_task: the Task rows, one for
\* the job of each request.  The store is not among the source files; the
\* rows follow the typed CRUD contract of the specification (section 6).
\* completions is history: how often the row was written as completed.
NoTask ==
    [status |-> "none", result_url |-> "none", completed_at |-> NoTime,
     completions |-> 0]

DbCreateTask(d, r) ==
    [d EXCEPT !.tasks[r] = [NoTask EXCEPT !.status = "processing"]]

DbCompleteTask(d, r, url, at) ==
    [d EXCEPT !.tasks[r] = [status |-> "completed", result_url |-> url,
                            completed_at |-> at,
                            completions |-> @.completions + 1]]

\* The video submission answers with operations, with none, or raises.
\* With operations, the Task is created as processing and the chunk that
\* announces the generation is yielded.
SubmitOk(r) ==
    /\ req[r].pc = "submit"
    /\ db' = DbCreateTask(db, r)
    /\ req' = [req EXCEPT ![r] = [Goto(req[r], "poll") EXCEPT
                                     !.out = @ \o StreamChunk(req[r])]]
    /\ UNCHANGED <<now, lock, gate, lastOp>>

SubmitEmpty(r) ==
    /\ req[r].pc = "submit"
    /\ Return(r, db, req[r], "no_operations", ErrorEnvelope)

SubmitFail(r, e) == req[r].pc = "submit" /\ Raise(r, e)

\* generation_handler.py:689  progress_update_interval = 7
ProgressInterval == 7

\* The progress chunk of a status answer that names an operation:
\* "if stream and attempt % progress_update_interval == 0".
Progress(rq) ==
    IF rq.stream /\ rq.attempt % ProgressInterval = 0 THEN <<"chunk">>
    ELSE <<>>

\* _poll_video_result: one check_video_status of the loop.  A status that is
\* not terminal, or an empty operation list, uses up one attempt; the empty
\* list comes before the progress chunk.
PollPending(r) ==
    /\ req[r].pc = "poll" /\ req[r].attempt < MaxPollAttempts
    /\ \E empty \in BOOLEAN :
          req' = [req EXCEPT ![r].attempt = @ + 1, ![r].polls = @ + 1,
                             ![r].out = IF empty THEN @
                                        ELSE @ \o Progress(req[r])]
    /\ UNCHANGED <<db, now, lock, gate, lastOp>>

\* The loop variable after a status call that raised, mutated: the attempt
\* is made again.
AfterPollRaise_Retry(a) == a

\* The loop variable after a status call that raised, mutated: the
\* exception ends the loop.
AfterPollRaise_End(a) == MaxPollAttempts

\* "except Exception: ... continue": on to the next value of the range.
AfterPollRaise(a) == a + 1

\* The status call raises e: "except Exception: ... continue".
PollRaise(r, e) ==
    /\ req[r].pc = "poll" /\ req[r].attempt < MaxPollAttempts
    /\ req' = [req EXCEPT ![r].attempt = AfterPollRaise(@),
                          ![r].polls = @ + 1,
                          ![r].saw429 = @ \/ Http429(e)]
    /\ UNCHANGED <<db, now, lock, gate, lastOp>>

\* The Task after a successful status with an address, mutated: the row is
\* left as it was.
TaskOnSuccess_Kept(d, r, url, at) == d

\* "await self.db.update_task(task_id, status='completed', progress=100,
\* result_urls=[local_url], completed_at=time.time())"
TaskOnSuccess(d, r, url, at) == DbCompleteTask(d, r, url, at)

\* The status is MEDIA_GENERATION_STATUS_SUCCESSFUL and carries an address:
\* the cache step, the Task written as completed, then the result.
PollSuccess(r) ==
    /\ req[r].pc = "poll" /\ req[r].attempt < MaxPollAttempts
    /\ \E c \in CacheOutcomes(db) :
          Deliver(r, TaskOnSuccess(db, r, LocalUrl(c), now), c,
                  Progress(req[r]))

\* The status is successful and carries no address.
PollNoUrl(r) ==
    /\ req[r].pc = "poll" /\ req[r].attempt < MaxPollAttempts
    /\ Return(r, db, req[r], "empty_url",
              Progress(req[r]) \o ErrorEnvelope)

\* The status starts with MEDIA_GENERATION_STATUS_ERROR: the error envelope
\* is yielded and the generator returns; the Task is not written.
PollErrorStatus(r) ==
    /\ req[r].pc = "poll" /\ req[r].attempt < MaxPollAttempts
    /\ Return(r, db, req[r], "poll_error",
              Progress(req[r]) \o ErrorEnvelope)

\* The end of the loop, mutated: the range is one attempt short.
PollTimeout_Early(r) ==
    /\ req[r].pc = "poll" /\ req[r].attempt >= MaxPollAttempts - 1
    /\ Return(r, db, req[r], "timeout", ErrorEnvelope)

\* The range of attempts is used up: "yield self._create_error_response(
\* 'Video generation timeout ...')" after the loop; the Task is not written.
PollTimeout(r) ==
    /\ req[r].pc = "poll" /\ req[r].attempt = MaxPollAttempts
    /\ Return(r, db, req[r], "timeout", ErrorEnvelope)

\* ---------------------------------------------- the pool on its own
\* A row as add_token stores it: active, no ban, a credential with an expiry.
NewToken(expires) ==
    [is_active |-> TRUE, ban_reason |-> NoReason, banned_at |-> NoTime,
     at |-> 1, at_expires |-> expires,
     image_enabled |-> TRUE, video_enabled |-> TRUE,
     image_concurrency |-> Unlimited, video_concurrency |-> Unlimited,
     current_project_id |-> 1]

\* The statistics row of a token that has failed n times in a row.
NewStats(n) ==
    [error_count |-> n, consecutive_error_count |-> n,
     image_count |-> 0, video_count |-> 0]

\* The calls of the store and of the load balancer that may be failing:
\* none, load_balancer.select_token, the statistics writes
\* (increment_token_stats, reset_error_count), or add_request_log.
Faults == {"none", "select_token", "increment_token_stats", "add_request_log"}

\* The store: the token rows and their statistics, no Task yet, the
\* threshold of the admin config, config.cache_enabled, and the call that
\* is failing.  added is the st column of the rows add_token has inserted
\* since, in the order of their ids.
Store(rows, stats, T, cache, failing) ==
    [tokens |-> rows, stats |-> stats,
     tasks |-> [r \in Requests |-> NoTask],
     error_ban_threshold |-> T, cache_enabled |-> cache,
     failing |-> failing, added |-> <<>>]

\* The tokens whose row or statistics differ between two stores.
Changed(d, e) ==
    {t \in Tokens : d.tokens[t] # e.tokens[t] \/ d.stats[t] # e.stats[t]}

Op(name, t, d, e) == [op |-> name, token |-> t, changed |-> Changed(d, e)]

\* The clock moves on by d hours.
Tick(d) ==
    /\ now + d <= MaxTime
    /\ now' = now + d
    /\ lastOp' = Op("tick", 0, db, db)
    /\ UNCHANGED <<db, lock, gate, req>>

PoolRecordError(t) ==
    /\ db.stats[t].error_count < MaxErrors
    /\ db' = record_error(db, t)
    /\ lastOp' = Op("record_error", t, db, db')
    /\ UNCHANGED <<now, lock, gate, req>>

PoolRecordSuccess(t) ==
    /\ db' = record_success(db, t)
    /\ lastOp' = Op("record_success", t, db, db')
    /\ UNCHANGED <<now, lock, gate, req>>

PoolBan429(t) ==
    /\ db' = ban_token_for_429(db, t, now)
    /\ lastOp' = Op("ban_token_for_429", t, db, db')
    /\ UNCHANGED <<now, lock, gate, req>>

PoolSweep ==
    /\ db' = auto_unban_429_tokens(db, now)
    /\ lastOp' = Op("auto_unban_429_tokens", 0, db, db')
    /\ UNCHANGED <<now, lock, gate, req>>

PoolEnable(t) ==
    /\ db' = enable_token(db, t)
    /\ lastOp' = Op("enable_token", t, db, db')
    /\ UNCHANGED <<now, lock, gate, req>>

PoolDisable(t) ==
    /\ db' = disable_token(db, t)
    /\ lastOp' = Op("disable_token", t, db, db')
    /\ UNCHANGED <<now, lock, gate, req>>

PoolUpdate(t) ==
    /\ db' = update_token(db, t, NoTime, now)
    /\ lastOp' = Op("update_token", t, db, db')
    /\ UNCHANGED <<now, lock, gate, req>>

\* --- the error bookkeeping: errors, successes, enable and disable
InitPool ==
    /\ \E T \in 1..MaxThreshold :
          db = Store([t \in Tokens |-> NewToken(NoTime)],
                     [t \in Tokens |-> NewStats(0)], T, FALSE, "none")
    /\ now = 0
    /\ lock = NoRequest
    /\ gate = NoneInFlight
    /\ req = [r \in Requests |-> IdleRequest]
    /\ lastOp = Op("init", 0, db, db)

NextPool ==
    \/ \E t \in Tokens : PoolRecordError(t)
    \/ \E t \in Tokens : PoolRecordSuccess(t)
    \/ \E t \in Tokens : PoolEnable(t)
    \/ \E t \in Tokens : PoolDisable(t)

SpecPool == InitPool /\ [][NextPool]_vars

\* --- the unban sweep: bans, sweeps, edits, enable and disable, over time
\* The expiry of a credential: unknown, reached when a ban made at time 0
\* is 12 hours old, or beyond the end of the run.  Every account starts with
\* one failure counted, so that a reset of its count shows.
ExpiryChoices == {NoTime, UnbanDelay, MaxTime + 1}

InitSweep ==
    /\ \E e \in [Tokens -> ExpiryChoices] :
          db = Store([t \in Tokens |-> NewToken(e[t])],
                     [t \in Tokens |-> NewStats(1)], MaxThreshold, FALSE,
                     "none")
    /\ now = 0
    /\ lock = NoRequest
    /\ gate = NoneInFlight
    /\ req = [r \in Requests |-> IdleRequest]
    /\ lastOp = Op("init", 0, db, db)

NextSweep ==
    \/ \E t \in Tokens : PoolBan429(t)
    \/ PoolSweep
    \/ \E t \in Tokens : PoolEnable(t)
    \/ \E t \in Tokens : PoolDisable(t)
    \/ \E t \in Tokens : PoolUpdate(t)
    \/ Tick(TickHours)

SpecSweep == InitSweep /\ [][NextSweep]_vars

\* --- the generation requests
Limits == {Unlimited} \cup (1..MaxLimit)

StepRefresh(r) ==
    \/ IsAtValid(r)
    \/ RefreshEnter(r)
    \/ \E x \in ExchangeExpiries(now) : ExchangeOk(r, x)
    \/ \E e \in Errors : ExchangeFail(r, e)

StepProject(r) ==
    \/ EnsureProject(r)
    \/ CreateProjectOk(r)
    \/ \E e \in Errors : CreateProjectFail(r, e)

StepDispatch(r) ==
    \/ Acquire(r)
    \/ UploadOk(r)
    \/ \E e \in Errors : UploadFail(r, e)
    \/ GenerateOk(r)
    \/ GenerateEmpty(r)
    \/ \E e \in Errors : GenerateFail(r, e)
    \/ SubmitOk(r)
    \/ SubmitEmpty(r)
    \/ \E e \in Errors : SubmitFail(r, e)
    \/ PollPending(r)
    \/ \E e \in Errors : PollRaise(r, e)
    \/ PollSuccess(r)
    \/ PollNoUrl(r)
    \/ PollErrorStatus(r)
    \/ PollTimeout(r)

\* The requests start with the store as given: the token rows, the
\* threshold, whether the cache is switched on, and the call that fails.
InitStore(rows, T, cache, failing) ==
    /\ db = Store(rows, [t \in Tokens |-> NewStats(0)], T, cache, failing)
    /\ now = 0
    /\ lock = NoRequest
    /\ gate = NoneInFlight
    /\ req = [r \in Requests |-> IdleRequest]
    /\ lastOp = Op("init", 0, db, db)

\* The same with the cache switched off and a store that answers.
InitWith(rows, T) ==
    /\ db = Store(rows, [t \in Tokens |-> NewStats(0)], T, FALSE, "none")
    /\ now = 0
    /\ lock = NoRequest
    /\ gate = NoneInFlight
    /\ req = [r \in Requests |-> IdleRequest]
    /\ lastOp = Op("init", 0, db, db)

\* --- the admission gate: accounts with a fresh credential and a project,
\* and any limits per class.
GateTokens ==
    {[NewToken(AtLifetime) EXCEPT !.image_concurrency = li,
                                  !.video_concurrency = lv] :
        li \in Limits, lv \in Limits}

InitGate == \E rows \in [Tokens -> GateTokens] : InitWith(rows, MaxThreshold)

NextGate ==
    \E r \in Requests :
        \/ \E k \in Kinds, n \in 0..MaxImages : Begin(r, k, n)
        \/ IsAtValid(r)
        \/ EnsureProject(r)
        \/ StepDispatch(r)

SpecGate == InitGate /\ [][NextGate]_vars

\* --- the refresh of credentials: accounts whose credential is missing, or
\* is of unknown expiry, expired, an hour from its expiry or fresh; the
\* requests are followed until is_at_valid has returned.
RefreshTokens ==
    {[NewToken(NoTime) EXCEPT !.at = NoAt]}
        \cup {NewToken(e) : e \in {NoTime, 0, RefreshMargin, AtLifetime}}

InitRefresh ==
    \E rows \in [Tokens -> RefreshTokens] : InitWith(rows, MaxThreshold)

NextRefresh ==
    \E r \in Requests :
        \/ \E k \in Kinds : Begin(r, k, 0)
        \/ StepRefresh(r)

SpecRefresh == InitRefresh /\ [][NextRefresh]_vars

\* --- the whole of handle_generation, two requests at a time: accounts
\* that are freshly enrolled (a fresh credential and a project) or stale
\* (an expired credential and no project yet).
\* An enrolled account, its credential fresh or expired, with or without a
\* project.
Enrolled(fresh, project) ==
    [NewToken(IF fresh THEN AtLifetime ELSE 0) EXCEPT
        !.current_project_id = IF project THEN 1 ELSE 0]

Init ==
    \E fresh \in [Tokens -> BOOLEAN] :
        InitWith([t \in Tokens |-> Enrolled(fresh[t], fresh[t])], MaxThreshold)

Step(r) ==
    \/ \E k \in Kinds, n \in 0..MaxImages : Begin(r, k, n)
    \/ StepRefresh(r)
    \/ StepProject(r)
    \/ StepDispatch(r)

Next == \E r \in Requests : Step(r)

Spec == Init /\ [][Next]_vars

\* --- the selection of an account, one request: accounts active or not,
\* with either capability switched on or off, fresh or stale.
SelectTokens ==
    {[Enrolled(fresh, fresh) EXCEPT !.is_active = a, !.image_enabled = ie,
                                    !.video_enabled = ve] :
        fresh \in BOOLEAN, a \in BOOLEAN, ie \in BOOLEAN, ve \in BOOLEAN}

InitSelect ==
    \E rows \in [Tokens -> SelectTokens], T \in 1..MaxThreshold :
        InitWith(rows, T)

SpecSelect == InitSelect /\ [][Step(1)]_vars

\* --- the ways into handle_generation, one request: any model id, prompt
\* and stream flag, through the route or directly; accounts fresh with a
\* project or stale without one, active or not, with both capabilities
\* switched on or off.
EntryTokens ==
    {[Enrolled(fresh, fresh) EXCEPT !.is_active = a, !.image_enabled = e,
                                    !.video_enabled = e] :
        fresh \in BOOLEAN, a \in BOOLEAN, e \in BOOLEAN}

InitEntry == \E rows \in [Tokens -> EntryTokens] : InitWith(rows, MaxThreshold)

Entry(r) ==
    \E m \in ModelIds, p \in Prompts, n \in 0..MaxImages, s \in BOOLEAN :
        \/ create_chat_completion(r, m, p, n, s)
        \/ handle_generation(r, "direct", m, p, n, s)

NextEntry ==
    \/ Entry(1)
    \/ StepRefresh(1)
    \/ StepProject(1)
    \/ StepDispatch(1)

SpecEntry == InitEntry /\ [][NextEntry]_vars

\* --- one streaming request to its end, where every upstream call of its
\* dispatch answers or raises (the HTTP client's timeout) and every sleep
\* of the poll loop returns.
SpecPoll == InitEntry /\ [][Step(1)]_vars /\ WF_vars(StepDispatch(1))

\* --- one request for any model with up to one image more than an i2v
\* model takes, through the route, the cache switched on or off, over time:
\* accounts with a fresh credential and a project.
InitMedia ==
    \E cache \in BOOLEAN :
        InitStore([t \in Tokens |-> Enrolled(TRUE, TRUE)], MaxThreshold,
                  cache, "none")

NextMedia ==
    \/ \E m \in Models, n \in 0..(max_images + 1) :
          StartGeneration(1, "route", m, "text", n, TRUE)
    \/ IsAtValid(1)
    \/ EnsureProject(1)
    \/ StepDispatch(1)
    \/ RangeError(1)
    \/ Tick(TickHours)

SpecMedia == InitMedia /\ [][NextMedia]_vars

\* --- one request for any model, streaming or not, with a store or a load
\* balancer of which one call may be failing.
InitFaults ==
    \E f \in Faults, fresh \in BOOLEAN :
        InitStore([t \in Tokens |-> Enrolled(fresh, fresh)], MaxThreshold,
                  FALSE, f)

NextFaults ==
    \/ \E m \in Models \cup {"unknown"}, n \in 0..MaxImages, s \in BOOLEAN :
          handle_generation(1, "direct", m, "text", n, s)
    \/ StepRefresh(1)
    \/ StepProject(1)
    \/ StepDispatch(1)
    \/ RangeError(1)

SpecFaults == InitFaults /\ [][NextFaults]_vars

\* --- the life of an account: every operation of the pool, over time.
\* lastOp carries one more history field, cause: for each inactive account
\* the latest operation that deactivated it.
Deactivations ==
    {"ban_token_for_429", "refresh_failed", "disable_token"}

\* Whether the operation "name" on account t, which leaves the store e,
\* deactivated t: a ban, a failed refresh and disable_token always do,
\* record_error does at the threshold.
Deactivates(name, t, e) ==
    \/ name \in Deactivations
    \/ name = "record_error" /\ ThresholdReached(e, t)

CauseAfter(cause, name, t, e) ==
    [u \in Tokens |->
        IF e.tokens[u].is_active THEN "none"
        ELSE IF u = t /\ Deactivates(name, t, e) THEN name
        ELSE cause[u]]

\* The pool operation "name" on account t (0: on all) leaves the store e.
Life(name, t, e) ==
    /\ db' = e
    /\ lastOp' = [op |-> name, token |-> t, changed |-> Changed(db, e),
                  cause |-> CauseAfter(lastOp.cause, name, t, e)]
    /\ UNCHANGED <<now, lock, gate, req>>

LifeBan(t) == Life("ban_token_for_429", t, ban_token_for_429(db, t, now))

LifeEnable(t) == Life("enable_token", t, enable_token(db, t))

LifeDisable(t) == Life("disable_token", t, disable_token(db, t))

LifeError(t) ==
    /\ db.stats[t].error_count < MaxErrors
    /\ Life("record_error", t, record_error(db, t))

LifeSuccess(t) == Life("record_success", t, record_success(db, t))

\* is_at_valid finds the credential in need of a refresh, and the exchange
\* answers or fails.
LifeRefresh(t) ==
    /\ NeedsRefresh(db.tokens[t], now)
    /\ \/ Life("refresh", t, RefreshSucceeded(db, t, now + AtLifetime))
       \/ Life("refresh_failed", t, RefreshFailed(db, t))

LifeUpdate(t) == Life("update_token", t, update_token(db, t, NoTime, now))

LifeSweep == Life("auto_unban_429_tokens", 0, auto_unban_429_tokens(db, now))

LifeTick ==
    /\ now + TickHours <= MaxTime
    /\ now' = now + TickHours
    /\ UNCHANGED <<db, lock, gate, req, lastOp>>

InitLife ==
    /\ db = Store([t \in Tokens |-> NewToken(UnbanDelay + 1)],
                  [t \in Tokens |-> NewStats(0)], MaxThreshold, FALSE, "none")
    /\ now = 0
    /\ lock = NoRequest
    /\ gate = NoneInFlight
    /\ req = [r \in Requests |-> IdleRequest]
    /\ lastOp = [op |-> "init", token |-> 0, changed |-> {},
                 cause |-> [t \in Tokens |-> "none"]]

\* The operations are applied to the first account; the sweep goes over all
\* of them.
NextLife ==
    \/ LifeBan(1)
    \/ LifeEnable(1)
    \/ LifeDisable(1)
    \/ LifeError(1)
    \/ LifeSuccess(1)
    \/ LifeRefresh(1)
    \/ LifeUpdate(1)
    \/ LifeSweep
    \/ LifeTick

SpecLife == InitLife /\ [][NextLife]_vars

\* ------------------------------------------------------------ claims
Threshold == db.error_ban_threshold

\* C1: a record_error on account t raises t's consecutive error count by one
\* and leaves t active exactly when t was active and the new count is still
\* below the threshold T, so an account whose count started at 0 is
\* deactivated on its T-th consecutive failure and not before; no other
\* account changes; a record_success puts the count back to 0, so that T
\* further failures are needed.
C1_ThresholdDeactivation ==
    [][\A t \in Tokens :
        /\ (lastOp'.op = "record_error" /\ lastOp'.token = t) =>
              /\ db'.stats[t].consecutive_error_count =
                     db.stats[t].consecutive_error_count + 1
              /\ db'.tokens[t].is_active =
                     (db.tokens[t].is_active
                        /\ db.stats[t].consecutive_error_count + 1 < Threshold)
              /\ lastOp'.changed = {t}
        /\ (lastOp'.op = "record_success" /\ lastOp'.token = t) =>
              /\ db'.stats[t].consecutive_error_count = 0
              /\ db'.tokens = db.tokens
              /\ lastOp'.changed \subseteq {t}
      ]_vars

\* C1's case: with a threshold of at least 2, a failure has just deactivated
\* an account whose count stands at the threshold after an earlier run of
\* failures was reset, while another account is still active.
C1_Witness ==
    \E t \in Tokens, u \in Tokens :
        /\ lastOp.op = "record_error" /\ lastOp.token = t
        /\ Threshold >= 2
        /\ ~db.tokens[t].is_active
        /\ db.tokens[t].ban_reason = NoReason
        /\ db.stats[t].consecutive_error_count = Threshold
        /\ db.stats[t].error_count > Threshold
        /\ u # t /\ db.tokens[u].is_active

\* The condition of C3, as the claim words it.
C3_Eligible(row, clock) ==
    /\ row.ban_reason = BAN_429
    /\ ~row.is_active
    /\ row.banned_at # NoTime
    /\ clock - row.banned_at >= 12
    /\ (row.at_expires = NoTime \/ row.at_expires > clock)

\* C3: a sweep reactivates an account (active, ban reason and ban time
\* cleared, consecutive error count 0) if and only if it is banned for rate
\* limit, inactive, has a ban time at least 12 hours old and a credential
\* whose expiry is absent or in the future; every other account is left as
\* it was.
C3_SweepUnbansExactlyEligible ==
    [][lastOp'.op = "auto_unban_429_tokens" =>
        \A t \in Tokens :
            IF C3_Eligible(db.tokens[t], now)
            THEN /\ db'.tokens[t] = [db.tokens[t] EXCEPT !.is_active = TRUE,
                                                         !.ban_reason = NoReason,
                                                         !.banned_at = NoTime]
                 /\ db'.stats[t] = [db.stats[t] EXCEPT
                                        !.consecutive_error_count = 0]
            ELSE /\ db'.tokens[t] = db.tokens[t]
                 /\ db'.stats[t] = db.stats[t]
      ]_vars

\* C3's case: a sweep has just reactivated one account and reset its error
\* count, and has left banned another one whose ban is 12 hours old but
\* whose credential has expired.
C3_Witness ==
    \E t \in Tokens, u \in Tokens :
        /\ lastOp.op = "auto_unban_429_tokens"
        /\ lastOp.changed = {t}
        /\ db.tokens[t].is_active /\ db.tokens[t].ban_reason = NoReason
        /\ db.stats[t].consecutive_error_count = 0
        /\ db.stats[t].error_count > 0
        /\ u # t
        /\ ~db.tokens[u].is_active /\ db.tokens[u].ban_reason = BAN_429
        /\ db.tokens[u].banned_at # NoTime
        /\ now - db.tokens[u].banned_at >= UnbanDelay
        /\ db.tokens[u].at_expires # NoTime /\ db.tokens[u].at_expires <= now

\* The class of a request, read off its model's generation type.
KindClass(k) == IF k = "image" THEN "image" ELSE "video"

\* The requests that hold a slot of account t for class c.
Holders(t, c) ==
    {r \in Requests : req[r].holds /\ req[r].token = t
                      /\ KindClass(req[r].kind) = c}

\* The positions at which an upload, generation, submission or status call
\* of a request is in flight.
Dispatching == {"upload", "generate", "submit", "poll"}

\* C2: once a request has ended, if one of its upstream calls answered
\* HTTP 429 then its account is inactive, with ban reason rate-limit and a
\* ban time.
C2_429AlwaysBans ==
    \A r \in Requests :
        (req[r].pc = "done" /\ req[r].saw429) =>
            /\ ~db.tokens[req[r].token].is_active
            /\ db.tokens[req[r].token].ban_reason = BAN_429
            /\ db.tokens[req[r].token].banned_at # NoTime

\* C4: for every account and class with a limit, the requests between a
\* granted acquisition and their release are at most the limit, counted per
\* class; and a request makes its upload, generation, submission and status
\* calls only while it holds its slot.
C4_InFlightWithinLimit ==
    /\ \A t \in Tokens, c \in Classes :
          Limit(db, t, c) # Unlimited =>
              Cardinality(Holders(t, c)) <= Limit(db, t, c)
    /\ \A r \in Requests : req[r].pc \in Dispatching => req[r].holds

\* C4's case: one account whose two limits are both 1 has one image request
\* and one video request in flight at once.
C4_Witness ==
    \E t \in Tokens :
        /\ Limit(db, t, "image") = 1 /\ Limit(db, t, "video") = 1
        /\ Holders(t, "image") # {} /\ Holders(t, "video") # {}
        /\ \A r \in Requests : req[r].pc \in Dispatching

\* C5: release has been called for an account and class exactly once for
\* each request that was granted a slot there and has left its dispatch,
\* and never for a request that was rejected; a request is granted at most
\* one slot; once all requests have finished, every counter is 0.
C5_ReleasedExactlyOnce ==
    /\ \A t \in Tokens, c \in Classes :
          gate.releases[c][t] =
              Cardinality({r \in Requests :
                              /\ req[r].token = t /\ KindClass(req[r].kind) = c
                              /\ req[r].acquired = 1 /\ ~req[r].holds})
    /\ \A r \in Requests :
          /\ req[r].acquired <= 1
          /\ req[r].holds => req[r].acquired = 1
          /\ req[r].pc = "done" => ~req[r].holds
          /\ req[r].outcome = "slot_rejected" => req[r].acquired = 0
    /\ (\A r \in Requests : req[r].pc = "done") =>
          \A t \in Tokens, c \in Classes : gate.inflight[c][t] = 0

\* C5's case: all requests have finished, one by an exception after it was
\* granted a slot, another rejected for the same account and class.
C5_Witness ==
    \E r \in Requests, q \in Requests :
        /\ \A x \in Requests : req[x].pc = "done"
        /\ req[r].outcome = "exception" /\ req[r].acquired = 1
        /\ req[q].outcome = "slot_rejected"
        /\ req[q].token = req[r].token /\ req[q].kind = req[r].kind

\* C6: an acquisition is granted exactly when the limit is the unlimited
\* sentinel or fewer requests than the limit hold a slot of that account
\* and class; a rejected acquisition leaves the gate as it was; and the
\* counter always equals the number of holders, so that a release makes
\* room for one more.
C6_AcquireWithinLimit ==
    /\ [](\A t \in Tokens, c \in Classes :
            gate.inflight[c][t] = Cardinality(Holders(t, c)))
    /\ [][\A r \in Requests :
            (req[r].pc = "acquire" /\ req'[r].pc # "acquire") =>
                LET t == req[r].token
                    c == KindClass(req[r].kind)
                    n == Cardinality(Holders(t, c))
                IN  /\ req'[r].holds <=>
                           (Limit(db, t, c) = Unlimited \/ n < Limit(db, t, c))
                    /\ req'[r].holds =>
                           gate'.inflight[c][t] = gate.inflight[c][t] + 1
                    /\ ~req'[r].holds =>
                           gate' = gate /\ req'[r].outcome = "slot_rejected"
       ]_vars

\* C6's case: with a limit of 1, one request holds the slot and another has
\* been rejected for the same account and class.
C6_Witness ==
    \E r \in Requests, q \in Requests :
        /\ req[r].holds
        /\ Limit(db, req[r].token, KindClass(req[r].kind)) = 1
        /\ req[q].outcome = "slot_rejected"
        /\ req[q].token = req[r].token /\ req[q].kind = req[r].kind

\* C7: the account a request is given by the balancer is active and has the
\* capability of the request enabled; a request given no account ends with
\* the no-token error.
C7_SelectedIsEligible ==
    [][\A r \in Requests :
        (req[r].pc = "idle" /\ req'[r].pc # "idle") =>
            LET t == req'[r].token
            IN  IF t = NoToken
                THEN req'[r].pc = "done" /\ req'[r].outcome = "no_token"
                ELSE /\ db.tokens[t].is_active
                     /\ IF req'[r].kind = "image"
                        THEN db.tokens[t].image_enabled
                        ELSE db.tokens[t].video_enabled
      ]_vars

\* C7's case: an image request was given no account while one account is
\* active with images switched off and the other has images switched on
\* but is inactive.
C7_Witness ==
    \E r \in Requests, t \in Tokens, u \in Tokens :
        /\ req[r].outcome = "no_token" /\ req[r].kind = "image"
        /\ db.tokens[t].is_active /\ ~db.tokens[t].image_enabled
        /\ ~db.tokens[u].is_active /\ db.tokens[u].image_enabled

\* C8: at most one exchange call is in flight at any time.
C8_OneExchangeAtATime ==
    Cardinality({r \in Requests : req[r].pc = "exchange"}) <= 1

\* C8's case: the exchange for one account is in flight while the check of
\* another account waits for the refresh region.
C8_Witness ==
    \E r \in Requests, q \in Requests :
        /\ req[r].pc = "exchange" /\ req[q].pc = "refresh_wait"
        /\ req[r].token # req[q].token

\* C9: an exchange is in flight for an account only while the stored
\* credential of that account still needs a refresh.
C9_NoDuplicateExchange ==
    \A r \in Requests :
        req[r].pc = "exchange" => NeedsRefresh(db.tokens[req[r].token], now)

\* C10: when the exchange of a refresh fails, the account is inactive
\* afterwards, the check has returned false, this call has made one exchange
\* and makes no other, and nothing else of the account's row and statistics
\* has changed.
C10_RefreshFailureDeactivates ==
    [][\A r \in Requests :
        (req[r].pc = "exchange" /\ req'[r].pc # "exchange"
            /\ db'.tokens[req[r].token].at = db.tokens[req[r].token].at) =>
            LET t == req[r].token
            IN  /\ req'[r].pc = "done" /\ req'[r].outcome = "at_invalid"
                /\ req'[r].exchanges = 1
                /\ db'.tokens[t] = [db.tokens[t] EXCEPT !.is_active = FALSE]
                /\ db'.stats[t] = db.stats[t]
      ]_vars

\* C10's case: a check has returned false after its exchange failed; the
\* account is inactive, keeps its credential, has no ban reason and no
\* error counted.
C10_Witness ==
    \E r \in Requests :
        /\ req[r].pc = "done" /\ req[r].outcome = "at_invalid"
        /\ req[r].exchanges = 1
        /\ ~db.tokens[req[r].token].is_active
        /\ db.tokens[req[r].token].at # NoAt
        /\ db.tokens[req[r].token].ban_reason = NoReason
        /\ db.stats[req[r].token].error_count = 0

\* The condition of C11 as the code has it: a credential, a known expiry,
\* and at least `hours` hours left.
C11_HoursLeft(row, clock, hours) ==
    /\ row.at # NoAt
    /\ row.at_expires # NoTime
    /\ row.at_expires - clock >= hours

\* What C11 says of the steps of is_at_valid, for a given test `fresh` of
\* the credential: the check returns true without an exchange exactly when
\* the credential is fresh and goes to the refresh otherwise; and it returns
\* what the refresh returns: true with a new credential stored, false with
\* the request over.
C11_Steps(fresh(_, _)) ==
    \A r \in Requests :
        /\ (req[r].pc = "is_at_valid" /\ req'[r].pc # "is_at_valid") =>
              /\ req'[r].exchanges = req[r].exchanges
              /\ db' = db
              /\ IF fresh(db.tokens[req[r].token], now)
                 THEN req'[r].pc = "project"
                 ELSE req'[r].pc = "refresh_wait"
        /\ (req[r].pc = "refresh_wait" /\ req'[r].pc # "refresh_wait") =>
              req'[r].pc = "exchange" /\ req'[r].exchanges = req[r].exchanges + 1
        /\ (req[r].pc = "exchange" /\ req'[r].pc # "exchange") =>
              \/ /\ req'[r].pc = "project"
                 /\ db'.tokens[req[r].token].at # db.tokens[req[r].token].at
              \/ req'[r].pc = "done" /\ req'[r].outcome = "at_invalid"

C11_AtLeastAnHour(row, clock) == C11_HoursLeft(row, clock, 1)

C11_MoreThanAnHour(row, clock) ==
    C11_HoursLeft(row, clock, 1) /\ row.at_expires - clock # 1

\* C11, amended: is_at_valid returns true without an exchange if and only
\* if a credential exists, its expiry is known and at least one hour remains
\* (exactly one hour counts as valid); in every other case it performs a
\* refresh and returns the outcome of that refresh.
C11_ValidIffAtLeastAnHour == [][C11_Steps(C11_AtLeastAnHour)]_vars

\* C11 as stated: is_at_valid returns true without an exchange if and only
\* if a credential exists, its expiry is known and more than one hour
\* remains; with one hour or less it refreshes.
C11_ValidIffMoreThanAnHour == [][C11_Steps(C11_MoreThanAnHour)]_vars

\* C11's case: a check has returned true without an exchange for a
\* credential that has exactly one hour left.
C11_Witness ==
    \E r \in Requests :
        /\ req[r].pc = "project" /\ req[r].exchanges = 0
        /\ db.tokens[req[r].token].at # NoAt
        /\ db.tokens[req[r].token].at_expires - now = 1

\* The status queries the poll loop of request r has made: those after which
\* the loop went on, and the one that ended it with a terminal status.
C12_Queries(r) ==
    req[r].polls +
        (IF \/ req[r].outcome \in {"empty_url", "poll_error"}
            \/ req[r].outcome = "artifact" /\ req[r].kind = "video"
         THEN 1 ELSE 0)

\* C12: the poll loop of a request makes at most max_attempts status
\* queries, whatever the upstream answers (pending statuses, empty lists,
\* exceptions), and a request that is polling always comes to its end.
C12_PollTerminates ==
    /\ [](\A r \in Requests : C12_Queries(r) <= MaxPollAttempts)
    /\ \A r \in Requests : (req[r].pc = "poll") ~> (req[r].pc = "done")

\* C12's case: a poll loop has ended by exhaustion after max_attempts
\* status queries, one of which raised.
C12_Witness ==
    \E r \in Requests :
        /\ req[r].pc = "done" /\ req[r].outcome = "timeout"
        /\ req[r].polls = MaxPollAttempts
        /\ req[r].saw429

\* The usage counter of account t for requests of kind k.
C13_Usage(d, t, k) ==
    IF k = "video" THEN d.stats[t].video_count ELSE d.stats[t].image_count

\* C13: when a request with an account ends, its usage is recorded and a
\* RequestLog entry of status 200 is appended if and only if its final
\* output is the generated artifact; a request that ends otherwise resets
\* no consecutive error count.
C13_BookkeepingIffSuccess ==
    [][\A r \in Requests :
        (req[r].pc # "done" /\ req'[r].pc = "done"
            /\ req'[r].token # NoToken) =>
            LET t == req'[r].token
                k == req'[r].kind
                success == req'[r].outcome = "artifact"
            IN  /\ (C13_Usage(db', t, k) = C13_Usage(db, t, k) + 1) <=> success
                /\ (req'[r].log = Append(req[r].log, 200)) <=> success
                /\ ~success =>
                       db'.stats[t].consecutive_error_count >=
                           db.stats[t].consecutive_error_count
      ]_vars

\* C14: when an exception ends a request, the account is banned for rate
\* limit, with its counters unchanged, if and only if the exception is an
\* HTTP 429 answer; any other exception adds one to the lifetime and to the
\* consecutive error count, deactivates the account at the threshold, and
\* leaves ban reason and ban time as they were.
C14_FailureClassifiedByCause ==
    [][\A r \in Requests :
        (req[r].pc # "done" /\ req'[r].pc = "done"
            /\ req'[r].outcome = "exception") =>
            LET t == req[r].token
                e == req'[r].raised
            IN  IF Http429(e)
                THEN /\ db'.tokens[t] = [db.tokens[t] EXCEPT
                                            !.is_active = FALSE,
                                            !.ban_reason = BAN_429,
                                            !.banned_at = now]
                     /\ db'.stats[t] = db.stats[t]
                ELSE /\ db'.stats[t] =
                          [db.stats[t] EXCEPT
                              !.error_count = @ + 1,
                              !.consecutive_error_count = @ + 1]
                     /\ db'.tokens[t] =
                          [db.tokens[t] EXCEPT
                              !.is_active =
                                  @ /\ db.stats[t].consecutive_error_count + 1
                                          < Threshold]
      ]_vars

\* C15: once a request has ended, if an upload, generation, submission or
\* status call of its dispatch answered HTTP 429, its account is banned for
\* rate limit.
C15_Any429Bans ==
    \A r \in Requests :
        (req[r].pc = "done" /\ req[r].saw429 /\ req[r].acquired = 1) =>
            /\ ~db.tokens[req[r].token].is_active
            /\ db.tokens[req[r].token].ban_reason = BAN_429

\* C16: a request that has ended by an exception or by a failed refresh of
\* the credential has appended exactly one RequestLog entry, a failed one.
C16_FailureLogged ==
    \A r \in Requests :
        (req[r].pc = "done" /\ req[r].outcome \in {"exception", "at_invalid"})
            => req[r].log = <<500>>

\* What a call that touches nothing leaves behind: no account selected, no
\* exchange, no slot, no RequestLog entry, and the store, the gate and the
\* refresh lock as they were.
C17_NothingTouched(r) ==
    /\ req'[r].pc = "done"
    /\ req'[r].token = NoToken
    /\ req'[r].exchanges = 0 /\ req'[r].acquired = 0 /\ req'[r].polls = 0
    /\ req'[r].log = <<>>
    /\ db' = db /\ gate' = gate /\ lock' = lock

\* C17: a request that names a model outside the registry ends at once with
\* an error, streaming or not, and touches nothing.
C17_UnknownModelFailsAtOnce ==
    [][\A r \in Requests :
        (req[r].pc = "idle" /\ req'[r].pc # "idle"
            /\ req'[r].kind \notin Kinds) =>
            /\ req'[r].outcome \in {"unsupported_model", "http400"}
            /\ C17_NothingTouched(r)
      ]_vars

\* C17's case: a non-streaming request through the route has named an
\* unknown model and has been refused, while an account was eligible.
C17_Witness ==
    \E r \in Requests, t \in Tokens :
        /\ req[r].pc = "done" /\ req[r].outcome = "unsupported_model"
        /\ req[r].kind = "unknown" /\ ~req[r].stream /\ req[r].via = "route"
        /\ db.tokens[t].is_active /\ db.tokens[t].image_enabled

\* C18: a request with an empty prompt, through the route or given to
\* handle_generation directly, has ended with a validation error and has
\* had no account selected, no exchange and no slot.
C18_EmptyPromptTouchesNothing ==
    \A r \in Requests :
        (req[r].pc # "idle" /\ req[r].prompt = "") =>
            /\ req[r].pc = "done"
            /\ req[r].outcome \in {"http400", "unsupported_model"}
            /\ req[r].token = NoToken
            /\ req[r].exchanges = 0 /\ req[r].acquired = 0

\* C19: a handle_generation call without streaming, for a known model, ends
\* at once with a message that says whether the balancer had an account for
\* the model's class, and touches nothing.
C19_NonStreamingOnlyReports ==
    [][\A r \in Requests :
        (req[r].pc = "idle" /\ req'[r].pc # "idle"
            /\ req'[r].kind \in Kinds /\ ~req'[r].stream
            /\ req'[r].outcome # "http400") =>
            /\ req'[r].outcome =
                   IF Candidates(db, gate, KindClass(req'[r].kind)) # {}
                   THEN "available" ELSE "unavailable"
            /\ C17_NothingTouched(r)
      ]_vars

\* C19's case: a non-streaming request was told that an account is
\* available, and that account still has its stale credential and no
\* project.
C19_Witness ==
    \E r \in Requests, t \in Tokens :
        /\ req[r].pc = "done" /\ req[r].outcome = "available"
        /\ ~req[r].stream
        /\ Candidates(db, gate, KindClass(req[r].kind)) = {t}
        /\ NeedsRefresh(db.tokens[t], now)
        /\ db.tokens[t].current_project_id = 0

\* C20: a streaming request for which the balancer has no account ends at
\* once with the no-token error for its generation type, and touches
\* nothing.
C20_NoTokenTouchesNothing ==
    [][\A r \in Requests :
        (req[r].pc = "idle" /\ req'[r].pc # "idle"
            /\ req'[r].kind \in Kinds /\ req'[r].stream
            /\ req'[r].outcome # "http400") =>
            IF Candidates(db, gate, KindClass(req'[r].kind)) = {}
            THEN /\ req'[r].outcome = "no_token"
                 /\ C17_NothingTouched(r)
            ELSE req'[r].token \in Tokens /\ req'[r].pc # "done"
      ]_vars

\* C20's case: a streaming video request has ended with the no-token error
\* while one account is active with its capabilities switched off and
\* another has them on but is inactive.
C20_Witness ==
    \E r \in Requests, t \in Tokens, u \in Tokens :
        /\ req[r].pc = "done" /\ req[r].outcome = "no_token"
        /\ req[r].stream /\ req[r].kind = "video"
        /\ db.tokens[t].is_active /\ ~db.tokens[t].video_enabled
        /\ ~db.tokens[u].is_active /\ db.tokens[u].video_enabled

\* What a request has done beyond the refresh of the credential: nothing.
C21_NoDispatch(rq) ==
    /\ rq.calls \subseteq {"exchange"}
    /\ rq.acquired = 0 /\ ~rq.holds
    /\ rq.uploaded = 0 /\ rq.polls = 0
    /\ rq.url = "none"

\* The last thing a request has yielded is an error envelope, the sentinel
\* of the route aside.
EndsInError(rq) ==
    /\ \E i \in 1..Len(rq.out) :
          /\ rq.out[i] = "error"
          /\ \A j \in (i + 1)..Len(rq.out) : rq.out[j] = "[DONE]"
    /\ \A i \in 1..Len(rq.out) : rq.out[i] \notin {"final", "completion"}

\* C21: when the exchange of request r's account fails (the request leaves
\* the exchange and no new credential is stored), the request ends at once
\* with an error envelope, its account is inactive, and neither the
\* account's project nor the admission gate is touched; and a request that
\* ended this way has made no upstream call but the exchange, holds and was
\* granted no slot, and its account stays inactive.
C21_RefreshFailureIsTerminal ==
    /\ [][\A r \in Requests :
            LET t == req[r].token
            IN  (/\ req[r].pc = "exchange" /\ req'[r].pc # "exchange"
                 /\ db'.tokens[t].at = db.tokens[t].at)
                => /\ req'[r].pc = "done"
                   /\ req'[r].outcome = "at_invalid"
                   /\ EndsInError(req'[r])
                   /\ ~db'.tokens[t].is_active
                   /\ db'.tokens[t].current_project_id
                          = db.tokens[t].current_project_id
                   /\ gate' = gate]_vars
    /\ [](\A r \in Requests :
            req[r].outcome = "at_invalid"
            => /\ req[r].pc = "done"
               /\ C21_NoDispatch(req[r])
               /\ ~db.tokens[req[r].token].is_active
               /\ gate = NoneInFlight)

C21_Witness ==
    \E r \in Requests :
        /\ req[r].pc = "done" /\ req[r].outcome = "at_invalid"
        /\ req[r].calls = {"exchange"}
        /\ ~db.tokens[req[r].token].is_active
        /\ db.tokens[req[r].token].current_project_id = 0

\* Whether the request names an i2v model and carries fewer or more images
\* than the model takes.
C22_BadImageCount(rq) ==
    /\ rq.pc # "idle"
    /\ video_type(rq.kind) = "i2v"
    /\ (rq.given < min_images \/ rq.given > max_images)

\* C22: a request for an image-to-video model with an image count outside
\* the model's range never holds and is never granted an admission slot,
\* uploads no image and submits no job, and when it has ended, it has ended
\* with an error envelope.
C22_RangeErrorConsumesNothing ==
    \A r \in Requests :
        C22_BadImageCount(req[r])
        => /\ ~req[r].holds /\ req[r].acquired = 0
           /\ req[r].uploaded = 0
           /\ req[r].calls \cap {"upload", "submit", "poll"} = {}
           /\ req[r].pc = "done" => EndsInError(req[r])

\* The Task of request r's job as a successful status with the address url
\* leaves it at time clock.
C23_Completed(url, clock) ==
    [status |-> "completed", result_url |-> url, completed_at |-> clock,
     completions |-> 1]

\* The request has yielded exactly one result, as the last thing before the
\* sentinel of the route.
EndsInResult(rq) ==
    /\ \E i \in 1..Len(rq.out) :
          /\ rq.out[i] \in {"final", "completion"}
          /\ \A j \in 1..Len(rq.out) :
                /\ j < i => rq.out[j] = "chunk"
                /\ j > i => rq.out[j] = "[DONE]"

\* C23: while a video job is polled its Task is processing; the step in
\* which the status is successful with an address takes the Task from
\* processing to completed, with the address the final content embeds (the
\* cached or the remote one) and the time of the step, and it is the only
\* write of the Task after its creation; a Task is completed only for a
\* request that ended with that result, and it was completed once.
C23_TaskCompletedOnSuccess ==
    /\ [][\A r \in Requests :
            (req[r].pc = "poll" /\ req'[r].outcome = "artifact")
            => /\ db.tasks[r].status = "processing"
               /\ req'[r].url \in {"cached", "remote"}
               /\ db'.tasks[r] = C23_Completed(req'[r].url, now)
               /\ EndsInResult(req'[r])]_vars
    /\ [][\A r \in Requests :
            db'.tasks[r] # db.tasks[r]
            => \/ /\ req[r].pc = "submit" /\ req'[r].pc = "poll"
                  /\ db.tasks[r] = NoTask
                  /\ db'.tasks[r].status = "processing"
               \/ /\ req[r].pc = "poll" /\ req'[r].outcome = "artifact"
                  /\ db'.tasks[r].status = "completed"]_vars
    /\ [](\A r \in Requests :
            /\ req[r].pc = "poll" => db.tasks[r].status = "processing"
            /\ db.tasks[r].status = "completed"
               => /\ req[r].pc = "done" /\ req[r].outcome = "artifact"
                  /\ db.tasks[r].completions = 1
                  /\ db.tasks[r].result_url = req[r].url
                  /\ req[r].url # "none")

C23_Witness ==
    \E r \in Requests :
        /\ req[r].pc = "done" /\ req[r].outcome = "artifact"
        /\ req[r].polls >= 1
        /\ db.tasks[r].status = "completed"
        /\ db.tasks[r].result_url = "cached"
        /\ db.tasks[r].completed_at > 0

\* C24: when the poll of a video job has answered with an error status,
\* the request has ended with an error envelope and the Task of the job is
\* failed; the Task of such a job is not left processing.
C24_FailedJobFailsTask ==
    \A r \in Requests :
        (req[r].pc = "done" /\ req[r].outcome = "poll_error")
        => /\ EndsInError(req[r])
           /\ db.tasks[r].status = "failed"
           /\ db.tasks[r].status # "processing"

\* C25: a request whose cache download failed has ended with its result,
\* which embeds the remote address, without an error envelope, with status
\* 200 logged, its usage counted and no error counted, its account active
\* and not banned; with the cache switched off the result embeds the remote
\* address, and after a download, the address of the cached file.
C25_CacheNeverFatal ==
    \A r \in Requests :
        LET rq == req[r]
            t == rq.token
        IN  /\ rq.cache = "failed"
               => /\ rq.pc = "done" /\ rq.outcome = "artifact"
                  /\ rq.url = "remote"
                  /\ EndsInResult(rq)
                  /\ rq.log = <<200>>
                  /\ db.stats[t].error_count = 0
                  /\ db.stats[t].image_count + db.stats[t].video_count = 1
                  /\ db.tokens[t].is_active
                  /\ db.tokens[t].ban_reason = NoReason
            /\ rq.cache = "disabled" => rq.url = "remote" /\ EndsInResult(rq)
            /\ rq.cache = "cached" => rq.url = "cached" /\ EndsInResult(rq)
            /\ rq.outcome = "artifact" => rq.cache # "none"
            /\ rq.cache # "none"
               => IF db.cache_enabled THEN rq.cache \in {"cached", "failed"}
                                      ELSE rq.cache = "disabled"

C25_Witness ==
    \E r \in Requests :
        /\ req[r].pc = "done" /\ req[r].cache = "failed"
        /\ req[r].outcome = "artifact" /\ req[r].url = "remote"
        /\ db.tasks[r].result_url = "remote"

\* C26: a handle_generation call that has ended has ended with a result, an
\* availability message or an error envelope, and no exception has left
\* it, whichever of its collaborators raised.
C26_NoRawException ==
    \A r \in Requests :
        req[r].pc = "done"
        => /\ req[r].outcome # "propagated"
           /\ EndsInResult(req[r]) \/ EndsInError(req[r])

\* The outcomes of a call whose dispatch generator returned.
C27_Returned ==
    {"artifact", "empty_result", "no_operations", "empty_url", "poll_error",
     "timeout", "slot_rejected", "image_range"}

\* C27: with a store whose add_request_log raises, no RequestLog entry is
\* written and the call goes its way as with a store that answers: no
\* exception leaves it, it ends with its result or its error envelope, a
\* returned dispatch has its usage counted and the error count reset, a
\* raised failure has banned the account or counted one error, and no slot
\* stays held.
C27_LogFailureHarmless ==
    \A r \in Requests :
        LET rq == req[r]
            t == rq.token
        IN  (db.failing \in {"none", "add_request_log"} /\ rq.pc = "done")
            => /\ rq.outcome # "propagated"
               /\ EndsInResult(rq) \/ EndsInError(rq)
               /\ ~rq.holds /\ gate.inflight = NoneInFlight.inflight
               /\ rq.log = IF db.failing = "add_request_log" THEN <<>>
                           ELSE IF rq.outcome \in C27_Returned THEN <<200>>
                           ELSE IF rq.outcome = "exception" THEN <<500>>
                           ELSE <<>>
               /\ rq.outcome \in C27_Returned
                  => /\ db.stats[t].image_count + db.stats[t].video_count = 1
                     /\ db.stats[t].consecutive_error_count = 0
               /\ rq.outcome = "exception"
                  => IF Is429(rq.raised)
                     THEN db.tokens[t].ban_reason = BAN_429
                     ELSE db.stats[t].error_count = 1

C27_Witness ==
    /\ db.failing = "add_request_log"
    /\ \E r \in Requests :
          /\ req[r].pc = "done" /\ req[r].outcome = "exception"
          /\ req[r].log = <<>>
          /\ db.stats[req[r].token].error_count = 1

\* C28: an inactive account becomes active only in a step of enable_token
\* on it or in a step of the sweep, and in a step of the sweep only when the
\* latest operation that deactivated it was a rate-limit ban.
C28_ReactivationOnlyEarned ==
    [][\A t \in Tokens :
          (~db.tokens[t].is_active /\ db'.tokens[t].is_active)
          => \/ lastOp'.op = "enable_token" /\ lastOp'.token = t
             \/ /\ lastOp'.op = "auto_unban_429_tokens"
                /\ lastOp.cause[t] = "ban_token_for_429"]_vars

\* C29: update_token on an account whose latest deactivation was a
\* rate-limit ban and that still carries the ban: when its credential
\* has not expired, the ban reason and the ban time are emptied and the
\* account is active again; when it has expired, the ban reason and the ban
\* time stay.
C29_EditLiftsBan ==
    [][\A t \in Tokens :
          (/\ lastOp'.op = "update_token" /\ lastOp'.token = t
           /\ lastOp.cause[t] = "ban_token_for_429"
           /\ db.tokens[t].ban_reason = BAN_429)
          => IF ~IsExpired(db.tokens[t], now)
             THEN /\ db'.tokens[t].ban_reason = NoReason
                  /\ db'.tokens[t].banned_at = NoTime
                  /\ db'.tokens[t].is_active
             ELSE /\ db'.tokens[t].ban_reason = db.tokens[t].ban_reason
                  /\ db'.tokens[t].banned_at = db.tokens[t].banned_at]_vars

\* The number of chunks with the stop marker among what was yielded.
RECURSIVE Finals(_)
Finals(out) ==
    IF out = <<>> THEN 0
    ELSE (IF Head(out) = "final" THEN 1 ELSE 0) + Finals(Tail(out))

\* C30: what a streaming request through the route has been sent is, when
\* the generation succeeded, one or more chunks without a finish marker,
\* then exactly one chunk with the embed and the stop marker, then the
\* sentinel, and nothing else; a request that is still running or whose
\* generation failed has been sent no chunk with the stop marker.
C30_StreamOrder ==
    \A r \in Requests :
        LET rq == req[r]
            n == Len(rq.out)
        IN  (rq.stream /\ rq.via = "route")
            => IF rq.pc = "done" /\ rq.outcome = "artifact"
               THEN /\ n >= 3
                    /\ \A i \in 1..(n - 2) : rq.out[i] = "chunk"
                    /\ rq.out[n - 1] = "final"
                    /\ rq.out[n] = "[DONE]"
                    /\ Finals(rq.out) = 1
                    /\ rq.url # "none"
               ELSE Finals(rq.out) = 0

C30_Witness ==
    \E r \in Requests :
        /\ req[r].pc = "done" /\ req[r].outcome = "artifact"
        /\ req[r].stream /\ req[r].via = "route"
        /\ Len(req[r].out) >= 5
        /\ req[r].out[Len(req[r].out)] = "[DONE]"
        /\ req[r].out[Len(req[r].out) - 1] = "final"

\* ------------------------------------------------------------------ C31
\* The upload_image calls a request has made: the answered ones and the
\* one that is outstanding.
C31_Uploads(rq) == rq.uploaded + (IF rq.pc = "upload" THEN 1 ELSE 0)

\* C31: an i2v request that was given exactly one image makes one upload
\* and submits with the start-frame call; given exactly two it makes two
\* uploads and submits with the start-and-end-frame call; given any other
\* number of images it makes no upload and no submission.
C31_I2VSubmission ==
    \A r \in Requests :
        LET rq == req[r]
        IN  rq.kind = "video_i2v" /\ rq.pc # "idle" =>
              /\ C31_Uploads(rq) <= rq.given
              /\ rq.given = 1 /\ "submit" \in rq.calls =>
                    rq.uploaded = 1 /\ rq.submission = "start_image"
              /\ rq.given = 2 /\ "submit" \in rq.calls =>
                    rq.uploaded = 2 /\ rq.submission = "start_end"
              /\ rq.given \notin {1, 2} =>
                    /\ C31_Uploads(rq) = 0
                    /\ "upload" \notin rq.calls
                    /\ "submit" \notin rq.calls
                    /\ rq.submission = "none"

\* C31's case: an i2v request with two images has uploaded both and its
\* job, submitted with the start-and-end-frame call, is being polled.
C31_Witness ==
    \E r \in Requests :
        /\ req[r].kind = "video_i2v" /\ req[r].given = 2
        /\ req[r].uploaded = 2 /\ req[r].submission = "start_end"
        /\ req[r].pc = "poll"

\* ------------------------------------------------------------------ C32
\* C32: the images of a t2v request are never sent upstream, whatever their
\* number: the request makes no upload call, and when it submits its job it
\* does so with the text-only call.
C32_T2VTextOnly ==
    \A r \in Requests :
        LET rq == req[r]
        IN  rq.kind = "video_t2v" /\ rq.pc # "idle" =>
              /\ rq.uploaded = 0
              /\ rq.pc # "upload" /\ "upload" \notin rq.calls
              /\ "submit" \in rq.calls => rq.submission = "text"

\* C32's case: a t2v request that was given two images has submitted its
\* job and is polling it.
C32_Witness ==
    \E r \in Requests :
        /\ req[r].kind = "video_t2v" /\ req[r].given = 2
        /\ req[r].pc = "poll" /\ "submit" \in req[r].calls

\* ------------------------------------------------------------------ C33
\* The video slots in flight for the account of request r.
C33_InFlight(g, r) ==
    IF req[r].token = NoToken THEN 0
    ELSE g.inflight["video"][req[r].token]

\* The positions of _handle_video_generation between the grant of the slot
\* and the end of the polling loop.
C33_VideoFlow == {"range_error", "upload", "submit", "poll"}

\* While a video request is in its flow it holds its slot, and it has made
\* no upload, submission or status call without having acquired it; when it
\* has ended, the slot is free again.
C33_Held ==
    \A r \in Requests :
        req[r].kind \in VideoModels =>
          /\ req[r].calls \cap {"upload", "submit", "poll"} # {} =>
                req[r].acquired = 1
          /\ req[r].pc \in C33_VideoFlow =>
                req[r].holds /\ C33_InFlight(gate, r) = 1
          /\ req[r].pc = "done" => C33_InFlight(gate, r) = 0

\* A step that frees the video slot of a request ends the request's flow:
\* there is no release between the submission and the end of the polling.
C33_ReleaseEndsFlow ==
    \A r \in Requests :
        /\ req[r].kind \in VideoModels /\ req[r].holds
        /\ C33_InFlight(gate', r) < C33_InFlight(gate, r)
        => req[r].pc \in C33_VideoFlow /\ req'[r].pc = "done"

\* C33: the video slot of the account is held for the whole video flow: it
\* is acquired before any upload or submission and released only when the
\* flow has ended (success, error status, timeout or failure), never between
\* the submission and the end of the polling.
C33_SlotHeldThroughPolling == []C33_Held /\ [][C33_ReleaseEndsFlow]_vars

\* C33's case: a video request that held its slot while it polled has ended
\* by the timeout of the loop and the slot has been released once.
C33_Witness ==
    \E r \in Requests :
        /\ req[r].kind \in VideoModels /\ req[r].pc = "done"
        /\ req[r].outcome = "timeout" /\ req[r].acquired = 1
        /\ gate.releases["video"][req[r].token] = 1
        /\ gate.inflight["video"][req[r].token] = 0

\* ------------------------------------------------------------------ C34
\* C34: an exception raised by one status poll does not end the polling
\* loop and is never the outcome of the request: no step of a polling
\* request ends it with an exception, and the step in which a status call
\* raised (seen here by the 429 it answered with) uses up one attempt and
\* leaves the request polling, with the store, the gate and the output as
\* they were.
C34_PollExceptionSwallowed ==
    [][\A r \in Requests :
        req[r].pc = "poll" /\ req'[r] # req[r] =>
          /\ req'[r].raised = req[r].raised
          /\ req'[r].outcome \notin {"exception", "propagated"}
          /\ (req'[r].saw429 /\ ~req[r].saw429) =>
                /\ req'[r].pc = "poll"
                /\ req'[r].attempt = req[r].attempt + 1
                /\ req'[r].polls = req[r].polls + 1
                /\ req'[r].out = req[r].out
                /\ db' = db /\ gate' = gate]_vars

\* C34's case: a video request one of whose status calls raised has gone on
\* polling and has ended with the artifact.
C34_Witness ==
    \E r \in Requests :
        /\ req[r].kind \in VideoModels /\ req[r].pc = "done"
        /\ req[r].saw429 /\ req[r].polls >= 1
        /\ req[r].outcome = "artifact" /\ req[r].raised = "none"

\* ------------------------------------------------------------------ C35
\* A request that has ended by the timeout of its polling loop has made
\* exactly max_attempts status queries, none of them terminal; its output
\* ends with the error envelope and holds no result, and its Task is not
\* completed.
C35_TimedOut ==
    \A r \in Requests :
        req[r].outcome = "timeout" =>
          /\ req[r].pc = "done"
          /\ req[r].polls = MaxPollAttempts
          /\ req[r].attempt = MaxPollAttempts
          /\ EndsInError(req[r])
          /\ db.tasks[r].status = "processing"
          /\ db.tasks[r].completions = 0

\* C35: when none of the max_attempts polls has yielded a success or an
\* error status, the polling loop ends after exactly max_attempts status
\* queries with the timeout error, and the Task is not marked completed.
C35_TimeoutAfterMaxAttempts ==
    /\ []C35_TimedOut
    /\ \A r \in Requests :
          (req[r].pc = "poll" /\ req[r].attempt = MaxPollAttempts)
              ~> (req[r].pc = "done" /\ req[r].outcome = "timeout")

\* C35's case: a video job has been polled max_attempts times without a
\* terminal status and the request has ended with the timeout error, its
\* Task still processing.
C35_Witness ==
    \E r \in Requests :
        /\ req[r].pc = "done" /\ req[r].outcome = "timeout"
        /\ req[r].polls = MaxPollAttempts
        /\ db.tasks[r].status = "processing"
        /\ req[r].out[Len(req[r].out)] = "error"

\* ------------------------------------------------------------------ C36
\* The requests whose ensure_project_exists call has returned a project of
\* account t.
C36_Returned(t) == {r \in Requests : req[r].token = t /\ req[r].project # 0}

\* C36: ensure_project_exists returns the bound project of an account, or
\* creates one when there is none, also under concurrency: for each account
\* at most one remote project is created, and all calls for the account
\* return the same project id.
C36_OneProjectPerAccount ==
    \A t \in Tokens :
        /\ Cardinality({r \in C36_Returned(t) : req[r].created}) <= 1
        /\ \A r1, r2 \in C36_Returned(t) : req[r1].project = req[r2].project

\* ------------------------------------------------------------------ C37
\* C37: no upload, generation or submission call is made for an account
\* that is inactive when the request is dispatched: a request whose account
\* was banned or disabled between its selection and its dispatch ends there
\* and makes no further upstream call.
C37_NoDispatchOnInactive ==
    [][\A r \in Requests :
        /\ req[r].pc = "acquire" /\ req'[r].pc # "acquire"
        /\ ~db.tokens[req[r].token].is_active
        => /\ req'[r].pc = "done"
           /\ req'[r].calls = req[r].calls]_vars

\* ------------------------------------------------------------------ C38
\* --- a rate-limit ban and what may come between it and the sweep: edits
\* of the administrator, errors and successes of requests in flight, bans
\* again, over time.  lastOp carries the history field banned: for each
\* account that has been inactive ever since its latest rate-limit ban, the
\* time of that ban.
BannedAfter(banned, name, t, e, clock) ==
    [u \in Tokens |->
        IF e.tokens[u].is_active THEN NoTime
        ELSE IF u = t /\ name = "ban_token_for_429" THEN clock
        ELSE banned[u]]

Unban(name, t, e) ==
    /\ db' = e
    /\ lastOp' = [op |-> name, token |-> t, changed |-> Changed(db, e),
                  banned |-> BannedAfter(lastOp.banned, name, t, e, now)]
    /\ UNCHANGED <<now, lock, gate, req>>

UnbanBan(t) == Unban("ban_token_for_429", t, ban_token_for_429(db, t, now))

UnbanUpdate(t) == Unban("update_token", t, update_token(db, t, NoTime, now))

UnbanError(t) ==
    /\ db.stats[t].error_count < MaxErrors
    /\ Unban("record_error", t, record_error(db, t))

UnbanSuccess(t) == Unban("record_success", t, record_success(db, t))

UnbanSweep ==
    Unban("auto_unban_429_tokens", 0, auto_unban_429_tokens(db, now))

InitUnban ==
    /\ db = Store([t \in Tokens |-> NewToken(UnbanDelay + 1)],
                  [t \in Tokens |-> NewStats(0)], MaxThreshold, FALSE, "none")
    /\ now = 0
    /\ lock = NoRequest
    /\ gate = NoneInFlight
    /\ req = [r \in Requests |-> IdleRequest]
    /\ lastOp = [op |-> "init", token |-> 0, changed |-> {},
                 banned |-> [t \in Tokens |-> NoTime]]

NextUnban ==
    \/ \E t \in Tokens : UnbanBan(t)
    \/ \E t \in Tokens : UnbanUpdate(t)
    \/ \E t \in Tokens : UnbanError(t)
    \/ \E t \in Tokens : UnbanSuccess(t)
    \/ UnbanSweep
    \/ LifeTick

SpecUnban == InitUnban /\ [][NextUnban]_vars

\* C38: an account that was deactivated by a rate-limit ban and has been
\* inactive since, and whose credential has not expired, is reactivated by
\* a sweep that runs 12 hours or more after the ban, whatever edits of the
\* administrator and errors and successes of requests came in between.
C38_SweepLiftsBan ==
    [][\A t \in Tokens :
          (/\ lastOp'.op = "auto_unban_429_tokens"
           /\ lastOp.banned[t] # NoTime
           /\ now - lastOp.banned[t] >= UnbanDelay
           /\ ~IsExpired(db.tokens[t], now))
          => db'.tokens[t].is_active]_vars

Credentials == 1..(NumTokens + 1)

\* The st column of the token table: the rows of the pool, then the rows
\* add_token has inserted.
SessionCredentials(d) == [i \in 1..NumTokens |-> i] \o d.added

\* Database.get_token_by_st.  The store is not among the source files:
\* the lookup follows the typed CRUD contract of the specification
\* (section 6) and finds a row that holds the credential.
GetTokenBySt(d, st) ==
    \E i \in 1..Len(SessionCredentials(d)) : SessionCredentials(d)[i] = st

\* Database.add_token for a credential: the row is inserted.  Whether the
\* table refuses a second row with the same credential is not told by the
\* specification or the source: both answers are possible.
DbAddTokenAnswers(d, st) ==
    IF GetTokenBySt(d, st) THEN {"inserted", "refused"} ELSE {"inserted"}

\* An add_token call ends.
EnrollEnds(r, outcome) ==
    req' = [req EXCEPT ![r].pc = "done", ![r].outcome = outcome]

\* add_token, step 1: "existing_token = await self.db.get_token_by_st(st);
\* if existing_token: raise ValueError"; otherwise the st_to_at call is
\* made.  project_given: the caller has passed a project_id.
AddTokenCheck(r, st, project_given) ==
    /\ req[r].pc = "idle"
    /\ IF GetTokenBySt(db, st)
       THEN req' = [req EXCEPT ![r].pc = "done", ![r].outcome = "exists",
                               ![r].st = st]
       ELSE req' = [req EXCEPT ![r].pc = "enroll_exchange", ![r].st = st,
                               ![r].project =
                                   IF project_given THEN 1 ELSE 0]
    /\ UNCHANGED <<db, now, lock, gate, lastOp>>

\* Step 2, st_to_at answers; step 3, get_credits, whose failure is
\* swallowed; step 4: with a project_id the row is saved next, without one
\* create_project is called.
EnrollExchangeOk(r) ==
    /\ req[r].pc = "enroll_exchange"
    /\ req' = [req EXCEPT ![r].pc = IF req[r].project # 0
                                    THEN "enroll_save"
                                    ELSE "enroll_project"]
    /\ UNCHANGED <<db, now, lock, gate, lastOp>>

\* st_to_at raises: "raise ValueError('ST to AT conversion failed ...')".
EnrollExchangeFail(r) ==
    /\ req[r].pc = "enroll_exchange"
    /\ EnrollEnds(r, "enroll_failed")
    /\ UNCHANGED <<db, now, lock, gate, lastOp>>

\* create_project answers with a new remote project (1 + r stands for its
\* uuid).
EnrollProjectOk(r) ==
    /\ req[r].pc = "enroll_project"
    /\ req' = [req EXCEPT ![r].pc = "enroll_save", ![r].project = 1 + r,
                          ![r].created = TRUE]
    /\ UNCHANGED <<db, now, lock, gate, lastOp>>

\* create_project raises: "raise ValueError('Failed to create project')".
EnrollProjectFail(r) ==
    /\ req[r].pc = "enroll_project"
    /\ EnrollEnds(r, "enroll_failed")
    /\ UNCHANGED <<db, now, lock, gate, lastOp>>

\* Steps 5 to 7: the Token is built and "token_id = await
\* self.db.add_token(token)" inserts it, then the Project is saved; or the
\* insert raises out of add_token.
EnrollSave(r) ==
    /\ req[r].pc = "enroll_save"
    /\ \E answer \in DbAddTokenAnswers(db, req[r].st) :
          IF answer = "inserted"
          THEN /\ db' = [db EXCEPT !.added = Append(@, req[r].st)]
               /\ EnrollEnds(r, "enrolled")
          ELSE /\ db' = db
               /\ EnrollEnds(r, "store_error")
    /\ UNCHANGED <<now, lock, gate, lastOp>>

add_token(r) ==
    \/ \E st \in Credentials, project_given \in BOOLEAN :
          AddTokenCheck(r, st, project_given)
    \/ EnrollExchangeOk(r)
    \/ EnrollExchangeFail(r)
    \/ EnrollProjectOk(r)
    \/ EnrollProjectFail(r)
    \/ EnrollSave(r)

InitEnroll == InitWith([t \in Tokens |-> Enrolled(TRUE, TRUE)], MaxThreshold)

NextEnroll == \E r \in Requests : add_token(r)

SpecEnroll == InitEnroll /\ [][NextEnroll]_vars

\* The add_token calls for the credential st that have inserted an account,
\* and those that have made a remote project.
C40_Inserted(st) ==
    {r \in Requests : req[r].st = st /\ req[r].outcome = "enrolled"}

C40_Created(st) == {r \in Requests : req[r].st = st /\ req[r].created}

\* C40: the pool never holds two accounts with the same session
\* credential: an add_token call for an enrolled credential fails and
\* changes nothing, and of the add_token calls for one credential, also
\* when they run side by side, at most one inserts an account and at most
\* one creates a project.
C40_CredentialsUnique ==
    /\ \A i, j \in 1..Len(SessionCredentials(db)) :
          SessionCredentials(db)[i] = SessionCredentials(db)[j] => i = j
    /\ \A st \in Credentials :
          /\ Cardinality(C40_Inserted(st)) <= 1
          /\ Cardinality(C40_Created(st)) <= 1
          /\ st \in Tokens => C40_Inserted(st) = {} /\ C40_Created(st) = {}
====
